---- MODULE Spec2Model ----
(***************************************************************************)
(* Model of gRPC-USDT: the rate-ingestion pipeline                         *)
(* (RateService.GetRateFromExchange, processOrder) and the process         *)
(* lifecycle (main, StartServer, HandleSignals).                           *)
(*                                                                         *)
(* Numbers: a float64 value is modelled by an integer counting halves      *)
(* (1.5 is 3, 16777217 is 33554434); every value used is an exact binary   *)
(* fraction, so float64 holds it exactly and float32 keeps 24 significant  *)
(* bits of it.                                                             *)
(* Errors: an error is the sequence of its message parts, outermost wrap   *)
(* first, as fmt.Errorf("...: %w", err) builds it.                         *)
(***************************************************************************)
EXTENDS Integers, Sequences, FiniteSets, TLC

\* ------------------------------------------------------------------------
\* Bounds
\* ------------------------------------------------------------------------

\* Number of invocation slots of GetRateFromExchange.
NumInv == 2

\* Longest order entry ([]string) drawn as an input.
MaxEntryLen == 2

\* Last value of the clock while the pipeline is checked alone.
MaxTime == 2

\* Last value of the clock while the process lifecycle is checked.
MaxLifeTime == 12

\* Number of calls made on the storage and its connectors.
MaxOps == 4

\* Last value of the clock while concurrent invocations are checked.
MaxConcTime == 1

\* ------------------------------------------------------------------------
\* Values
\* ------------------------------------------------------------------------

\* A nil error is the empty sequence; a nil pointer is the empty set and a
\* pointer to v is {v}; an unset time is NoTime.
NilErr == <<>>

Nil == {}

NoTime == -1

Inv == 1..NumInv

\* Strings an order entry is made of.
Strings == {"1.5", "16777217", "abc"}

RECURSIVE Pow2(_)
Pow2(k) == IF k = 0 THEN 1 ELSE 2 * Pow2(k - 1)

RECURSIVE BitLen(_)
BitLen(n) == IF n = 0 THEN 0 ELSE 1 + BitLen(n \div 2)

Abs(n) == IF n < 0 THEN -n ELSE n

\* Significant bits of a float32.
Float32Mantissa == 24

\* float32(x): round to 24 significant bits, ties to even.
Float32(x) ==
  LET a == Abs(x)
      k == BitLen(a)
  IN  IF k <= Float32Mantissa THEN x
      ELSE LET sh   == Pow2(k - Float32Mantissa)
               q    == a \div sh
               r    == a % sh
               half == sh \div 2
               up   == r > half \/ (r = half /\ q % 2 = 1)
               m    == (IF up THEN q + 1 ELSE q) * sh
           IN  IF x < 0 THEN -m ELSE m

\* strconv.ParseFloat(s, 64): the value in halves, or an error.
ParseOK(s) == s \in {"1.5", "16777217"}

ParseFloat(s) ==
  CASE s = "1.5"      -> 3
    [] s = "16777217" -> 33554434
    [] OTHER          -> 0

\* fmt.Errorf("label: %w", err)
Wrap(label, err) == <<label>> \o err

\* processOrder(order): [price, volume, err]
ProcessOrderVolumeUnchecked(order) ==
  IF Len(order) < 2
    THEN [price |-> 0, volume |-> 0, err |-> <<"invalid order format">>]
  ELSE IF ~ParseOK(order[1])
    THEN [price |-> 0, volume |-> 0, err |-> Wrap("price parsing error", <<"strconv.ParseFloat">>)]
  ELSE [price |-> ParseFloat(order[1]), volume |-> ParseFloat(order[2]), err |-> NilErr]

processOrder(order) ==
  IF Len(order) < 2
    THEN [price |-> 0, volume |-> 0, err |-> <<"invalid order format">>]
  ELSE IF ~ParseOK(order[1])
    THEN [price |-> 0, volume |-> 0, err |-> Wrap("price parsing error", <<"strconv.ParseFloat">>)]
  ELSE IF ~ParseOK(order[2])
    THEN [price |-> 0, volume |-> 0, err |-> Wrap("volume parsing error", <<"strconv.ParseFloat">>)]
  ELSE [price |-> ParseFloat(order[1]), volume |-> ParseFloat(order[2]), err |-> NilErr]

\* ------------------------------------------------------------------------
\* Inputs of the pipeline
\* ------------------------------------------------------------------------

SeqsUpTo(S, n) == UNION {[1..k -> S] : k \in 0..n}

\* Order entries the upstream can send.
Entries == SeqsUpTo(Strings, MaxEntryLen)

\* Entries that follow the first one of a side.
TailEntries == {<<"abc">>, <<"1.5", "1.5">>}

\* One side of the order book as it stands in the JSON document.
Sides == {<<>>} \cup {<<e>> : e \in Entries}
              \cup {<<e, f>> : e \in Entries, f \in TailEntries}

\* A key of the JSON document: present with a value, or absent.
Absent == [present |-> FALSE, items |-> <<>>]

JsonSides == {[present |-> TRUE, items |-> s] : s \in Sides} \cup {Absent}

\* Response bodies: text that is not JSON, or a JSON document.
Malformed == [json |-> FALSE, asks |-> Absent, bids |-> Absent]

JsonDocs == [json : {TRUE}, asks : JsonSides, bids : JsonSides]

Bodies == {Malformed} \cup JsonDocs

ValidBook ==
  [json |-> TRUE,
   asks |-> [present |-> TRUE, items |-> <<<<"1.5", "16777217">>>>],
   bids |-> [present |-> TRUE, items |-> <<<<"16777217", "1.5">>>>]]

\* Bodies of the responses whose status is not 200.
ErrorBodies == {Malformed, ValidBook}

StatusOK == 200

StatusText(code) ==
  CASE code = 200 -> "200 OK"
    [] code = 201 -> "201 Created"
    [] code = 500 -> "500 Internal Server Error"
    [] OTHER      -> "unknown"

Responses ==
  {[StatusCode |-> 200, Status |-> StatusText(200), Body |-> b] : b \in Bodies}
    \cup {[StatusCode |-> c, Status |-> StatusText(c), Body |-> b] :
            c \in {201, 500}, b \in ErrorBodies}

\* A second good book, with other prices and volumes.
OtherBook ==
  [json |-> TRUE,
   asks |-> [present |-> TRUE, items |-> <<<<"1.5", "1.5">>>>],
   bids |-> [present |-> TRUE, items |-> <<<<"1.5", "1.5">>>>]]

\* The responses drawn while concurrent invocations are checked: two good
\* books and a refusal.
ConcResponses ==
  {[StatusCode |-> 200, Status |-> StatusText(200), Body |-> b] : b \in {ValidBook, OtherBook}}
    \cup {[StatusCode |-> 500, Status |-> StatusText(500), Body |-> ValidBook]}

\* Order books whose sides differ in what follows the first entry: nothing,
\* a malformed entry, or a well-formed entry with another price.
TailSides(e) == {<<e>>} \cup {<<e, f>> : f \in TailEntries}

TailBooks ==
  {[json |-> TRUE,
    asks |-> [present |-> TRUE, items |-> a],
    bids |-> [present |-> TRUE, items |-> b]] :
     a \in TailSides(<<"1.5", "16777217">>) \cup TailSides(<<"abc">>),
     b \in TailSides(<<"16777217", "1.5">>)}

TailResponses == {[StatusCode |-> 200, Status |-> StatusText(200), Body |-> b] : b \in TailBooks}

\* Errors httpClient.Do returns.
TransportErrors == {<<"network error">>, <<"context deadline exceeded">>}

\* json.NewDecoder(resp.Body).Decode(&depthResponse)
DecodeOK(body) == body.json

DecodeSide(side) == IF side.present THEN side.items ELSE <<>>

Decode(body) == [Asks |-> DecodeSide(body.asks), Bids |-> DecodeSide(body.bids)]

NoDepth == [Asks |-> <<>>, Bids |-> <<>>]

NoLocals == [bestAsk |-> 0, bidVolume |-> 0, bestBid |-> 0, askVolume |-> 0]

NoRet == [resp |-> Nil, err |-> NilErr]

\* ------------------------------------------------------------------------
\* State
\* ------------------------------------------------------------------------

VARIABLES
  now,            \* the clock, in seconds
  urlOK,          \* cfg.BinanceAPIURL is a URL http.NewRequestWithContext accepts
  pc,             \* pc[i]: position of invocation i in GetRateFromExchange
  startedAt,      \* startedAt[i]: the time invocation i was entered
  reqDeadline,    \* reqDeadline[i]: the deadline of the context of the request, or NoTime
  httpResp,       \* httpResp[i]: resp of invocation i: Nil or {response}
  doErr,          \* doErr[i]: the error httpClient.Do returned, or NilErr
  depthResponse,  \* depthResponse[i]: the decoded order book
  locals,         \* locals[i]: bestAsk, bidVolume, bestBid, askVolume
  timestamp,      \* timestamp[i]: the value of time.Now() at line 316, or NoTime
  ret,            \* ret[i]: what the invocation returned: [resp, err]
  doCalls,        \* doCalls[i]: calls of httpClient.Do
  decodeCalls,    \* decodeCalls[i]: calls of Decode
  saveCalls,      \* saveCalls[i]: the calls of storage.SaveRate: [args, err]
  closeCalls,     \* closeCalls[i]: calls of resp.Body.Close
  rows            \* rows the storage holds

rateVars == <<urlOK, pc, startedAt, reqDeadline, httpResp, doErr, depthResponse, locals, timestamp,
              ret, doCalls, decodeCalls, saveCalls, closeCalls, rows>>

VARIABLES
  mainPc,          \* position of the main goroutine, in main and in HandleSignals
  sleepUntil,      \* end of main's time.Sleep, or NoTime
  tpState,         \* the tracer provider: "none", "active", "shutdown"
  tpShutdowns,     \* calls of tp.Shutdown
  storeState,      \* the storage: "none", "open"
  migrated,        \* the migrations have been applied
  rateService,     \* the service of line 260: "none", "created"
  probes,          \* the outcomes of the health probes made: "SERVING", "error"
  srv,             \* the gRPC server: "none", "listening", "serving", "draining", "stopped"
  metricsSrv,      \* the metrics goroutine: "none", "spawned", "serving", "failed"
  signals,         \* signals held by the channel of HandleSignals (capacity 1)
  ctxDeadline,     \* deadline of the context of line 146, or NoTime
  timerAt,         \* when the timer of line 156 fires, or NoTime
  selected,        \* the case the select of line 153 took: "none", "ctx", "timer"
  gsPc,            \* the goroutine of line 149: "none", "spawned", "waiting", "done"
  stopDoneAt,      \* when GracefulStop returned, or NoTime
  hsReturnedAt,    \* when HandleSignals returned, or NoTime
  rpc              \* rpc[i]: a GetRateFromExchange call served by the gRPC server:
                   \* "idle", "running", "finished", "cutoff"

lifeVars == <<mainPc, sleepUntil, tpState, tpShutdowns, storeState, migrated,
              rateService, probes, srv, metricsSrv, signals, ctxDeadline, timerAt, selected,
              gsPc, stopDoneAt, hsReturnedAt, rpc>>

VARIABLES
  storage,        \* the *Storage: "none", "built" by NewStorage, or the "literal"
                  \* &Storage{} of the tests, whose connectors are nil
  dsn,            \* Storage.dsn
  sqlDB,          \* DefaultDatabaseConnector.db: "nil", "open", "closed"
  mig,            \* DefaultMigrateConnector.m: "nil", "set"
  pending,        \* the migrations directory holds a migration not yet applied
  drift,          \* the schema changed since the last call of Migrate
  panicIn,        \* the method that panicked, or "none"
  ops,            \* calls made so far
  newStorageLog,  \* the calls of NewStorage that returned
  migrateLog,     \* the calls of Migrate that returned
  saveLog,        \* the calls of SaveRate that returned
  closeLog,       \* the calls of Close that returned
  dbRows,         \* rows inserted into rates
  DBSaves,        \* metrics.DBSaves
  DBSaveLatency   \* metrics.DBSaveLatency: observations made

dbVars == <<storage, dsn, sqlDB, mig, pending, drift, panicIn, ops, newStorageLog,
            migrateLog, saveLog, closeLog, dbRows, DBSaves, DBSaveLatency>>

VARIABLES
  health,         \* the last call the health service answered: method, request,
                  \* state of the server, status, error, statuses sent
  flags,          \* flags[s]: the flag of setting s in the flag.FlagSet
  environ,        \* environ[s]: the environment variable of setting s, "" when unset
  cfg             \* what LoadConfig returned: {} before, else {config}

sideVars == <<health, flags, environ, cfg>>

vars == <<now, rateVars, lifeVars, dbVars, sideVars>>

\* ------------------------------------------------------------------------
\* RateService.GetRateFromExchange
\* ------------------------------------------------------------------------

\* A return statement: the result, and the deferred resp.Body.Close() when
\* the defer of line 290 has been registered.
ZeroResponse ==
  [Success |-> FALSE, Ask |-> 0, Bid |-> 0, AskAmount |-> 0, BidAmount |-> 0,
   Timestamp |-> <<"RFC3339", NoTime>>]

ReturnValueWithError(i, r, e) ==
  /\ ret' = [ret EXCEPT ![i] = [resp |-> IF r = Nil THEN {ZeroResponse} ELSE r, err |-> e]]
  /\ pc' = [pc EXCEPT ![i] = "done"]
  /\ closeCalls' = [closeCalls EXCEPT ![i] = IF httpResp[i] # Nil THEN @ + 1 ELSE @]

Return(i, r, e) ==
  /\ ret' = [ret EXCEPT ![i] = [resp |-> r, err |-> e]]
  /\ pc' = [pc EXCEPT ![i] = "done"]
  /\ closeCalls' = [closeCalls EXCEPT ![i] = IF httpResp[i] # Nil THEN @ + 1 ELSE @]

\* A run-time panic (index out of range): the handler returns nothing; the
\* deferred Close still runs.
Panic(i) ==
  /\ pc' = [pc EXCEPT ![i] = "panic"]
  /\ closeCalls' = [closeCalls EXCEPT ![i] = IF httpResp[i] # Nil THEN @ + 1 ELSE @]
  /\ UNCHANGED ret

\* The timeout of a caller's context that has one.
CtxTimeout == 1

\* The deadlines of the context a caller entering at t passes: none, or its timeout.
CtxDeadlines(t) == {NoTime, t + CtxTimeout}

\* The context of the request is done: its deadline has passed.
Expired(i) == reqDeadline[i] # NoTime /\ now >= reqDeadline[i]

\* The transport still answers: the context of the request is not past its deadline.
InTime(i) == reqDeadline[i] = NoTime \/ now <= reqDeadline[i]

\* The handler is entered with the context of the caller.
Enter(i) ==
  /\ pc[i] = "idle"
  /\ pc' = [pc EXCEPT ![i] = "request"]
  /\ startedAt' = [startedAt EXCEPT ![i] = now]
  /\ \E d \in CtxDeadlines(now) : reqDeadline' = [reqDeadline EXCEPT ![i] = d]
  /\ UNCHANGED <<now, urlOK, httpResp, doErr, depthResponse, locals, timestamp, ret,
                 doCalls, decodeCalls, saveCalls, closeCalls, rows>>

\* http.NewRequestWithContext
NewRequest(i) ==
  /\ pc[i] = "request"
  /\ IF urlOK
       THEN /\ pc' = [pc EXCEPT ![i] = "do"]
            /\ UNCHANGED <<ret, closeCalls>>
       ELSE Return(i, Nil, Wrap("create request failed", <<"net/http">>))
  /\ UNCHANGED <<now, urlOK, reqDeadline, startedAt, httpResp, doErr, depthResponse, locals, timestamp,
                 doCalls, decodeCalls, saveCalls, rows>>

\* s.httpClient.Do(httpReq) fails with e.
DoErrorRetry(i, e) ==
  /\ pc[i] = "do"
  /\ e = <<"context deadline exceeded">> => Expired(i)
  /\ doCalls[i] = 0
  /\ doCalls' = [doCalls EXCEPT ![i] = @ + 1]
  /\ doErr' = [doErr EXCEPT ![i] = e]
  /\ UNCHANGED <<now, urlOK, reqDeadline, pc, startedAt, httpResp, depthResponse, locals, timestamp,
                 ret, decodeCalls, saveCalls, closeCalls, rows>>

DoError(i, e) ==
  /\ pc[i] = "do"
  /\ e = <<"context deadline exceeded">> => Expired(i)
  /\ doCalls' = [doCalls EXCEPT ![i] = @ + 1]
  /\ doErr' = [doErr EXCEPT ![i] = e]
  /\ Return(i, Nil, Wrap("fetch rates failed", e))
  /\ UNCHANGED <<now, urlOK, reqDeadline, startedAt, httpResp, depthResponse, locals, timestamp,
                 decodeCalls, saveCalls, rows>>

\* httpClient.Do with the fetch in flight shared: an invocation takes the
\* response another invocation holds instead of calling Do.
DoResponseCoalesced(i, r) ==
  /\ pc[i] = "do"
  /\ InTime(i)
  /\ IF \E j \in Inv \ {i} : httpResp[j] # Nil
       THEN /\ \E j \in Inv \ {i} : httpResp[j] # Nil /\ httpResp' = [httpResp EXCEPT ![i] = httpResp[j]]
            /\ UNCHANGED doCalls
       ELSE /\ httpResp' = [httpResp EXCEPT ![i] = {r}]
            /\ doCalls' = [doCalls EXCEPT ![i] = @ + 1]
  /\ pc' = [pc EXCEPT ![i] = "status"]
  /\ UNCHANGED <<now, urlOK, reqDeadline, startedAt, doErr, depthResponse, locals, timestamp, ret,
                 decodeCalls, saveCalls, closeCalls, rows>>

\* s.httpClient.Do(httpReq) answers r.
DoResponse(i, r) ==
  /\ pc[i] = "do"
  /\ InTime(i)
  /\ doCalls' = [doCalls EXCEPT ![i] = @ + 1]
  /\ httpResp' = [httpResp EXCEPT ![i] = {r}]
  /\ pc' = [pc EXCEPT ![i] = "status"]
  /\ UNCHANGED <<now, urlOK, reqDeadline, startedAt, doErr, depthResponse, locals, timestamp, ret,
                 decodeCalls, saveCalls, closeCalls, rows>>

\* if resp.StatusCode != http.StatusOK
StatusAcceptedAny2xx(code) == code \div 100 = 2

StatusAccepted(code) == code = StatusOK

\* The status check closing the body itself before the return, beside the
\* deferred Close.
CheckStatusCloses(i) ==
  /\ pc[i] = "status"
  /\ LET resp == CHOOSE r \in httpResp[i] : TRUE
     IN  IF StatusAccepted(resp.StatusCode)
           THEN /\ pc' = [pc EXCEPT ![i] = "decode"]
                /\ UNCHANGED <<ret, closeCalls>>
           ELSE /\ ret' = [ret EXCEPT ![i] =
                             [resp |-> Nil,
                              err |-> <<"binance API returned status", resp.Status>>]]
                /\ pc' = [pc EXCEPT ![i] = "done"]
                /\ closeCalls' = [closeCalls EXCEPT ![i] = @ + 2]
  /\ UNCHANGED <<now, urlOK, reqDeadline, startedAt, httpResp, doErr, depthResponse, locals, timestamp,
                 doCalls, decodeCalls, saveCalls, rows>>

CheckStatus(i) ==
  /\ pc[i] = "status"
  /\ LET resp == CHOOSE r \in httpResp[i] : TRUE
     IN  IF StatusAccepted(resp.StatusCode)
           THEN /\ pc' = [pc EXCEPT ![i] = "decode"]
                /\ UNCHANGED <<ret, closeCalls>>
           ELSE Return(i, Nil, <<"binance API returned status", resp.Status>>)
  /\ UNCHANGED <<now, urlOK, reqDeadline, startedAt, httpResp, doErr, depthResponse, locals, timestamp,
                 doCalls, decodeCalls, saveCalls, rows>>

\* json.NewDecoder(resp.Body).Decode(&depthResponse)
DecodeBody(i) ==
  /\ pc[i] = "decode"
  /\ decodeCalls' = [decodeCalls EXCEPT ![i] = @ + 1]
  /\ LET resp == CHOOSE r \in httpResp[i] : TRUE
     IN  IF DecodeOK(resp.Body)
           THEN /\ depthResponse' = [depthResponse EXCEPT ![i] = Decode(resp.Body)]
                /\ pc' = [pc EXCEPT ![i] = "empty"]
                /\ UNCHANGED <<ret, closeCalls>>
           ELSE /\ Return(i, Nil, Wrap("decode response failed", <<"encoding/json">>))
                /\ UNCHANGED depthResponse
  /\ UNCHANGED <<now, urlOK, reqDeadline, startedAt, httpResp, doErr, locals, timestamp,
                 doCalls, saveCalls, rows>>

\* if len(depthResponse.Asks) == 0 || len(depthResponse.Bids) == 0
BookEmptyBothSides(d) == Len(d.Asks) = 0 /\ Len(d.Bids) = 0

BookEmpty(d) == Len(d.Asks) = 0 \/ Len(d.Bids) = 0

CheckEmpty(i) ==
  /\ pc[i] = "empty"
  /\ IF BookEmpty(depthResponse[i])
       THEN Return(i, Nil, <<"empty response from binance">>)
       ELSE /\ pc' = [pc EXCEPT ![i] = "ask"]
            /\ UNCHANGED <<ret, closeCalls>>
  /\ UNCHANGED <<now, urlOK, reqDeadline, startedAt, httpResp, doErr, depthResponse, locals, timestamp,
                 doCalls, decodeCalls, saveCalls, rows>>

\* The ask taken from the last entry of the side.
ProcessAskLast(i) ==
  /\ pc[i] = "ask"
  /\ LET o == processOrder(depthResponse[i].Asks[Len(depthResponse[i].Asks)])
     IN  IF Len(depthResponse[i].Asks) = 0
           THEN /\ Panic(i)
                /\ UNCHANGED locals
         ELSE IF o.err # NilErr
           THEN /\ Return(i, Nil, Wrap("ask processing failed", o.err))
                /\ UNCHANGED locals
           ELSE /\ locals' = [locals EXCEPT ![i].bestAsk = o.price,
                                            ![i].bidVolume = o.volume]
                /\ pc' = [pc EXCEPT ![i] = "bid"]
                /\ UNCHANGED <<ret, closeCalls>>
  /\ UNCHANGED <<now, urlOK, reqDeadline, startedAt, httpResp, doErr, depthResponse, timestamp,
                 doCalls, decodeCalls, saveCalls, rows>>

\* bestAsk, bidVolume, err := processOrder(depthResponse.Asks[0])
ProcessAsk(i) ==
  /\ pc[i] = "ask"
  /\ LET o == processOrder(depthResponse[i].Asks[1])
     IN  IF Len(depthResponse[i].Asks) = 0
           THEN /\ Panic(i)
                /\ UNCHANGED locals
         ELSE IF o.err # NilErr
           THEN /\ Return(i, Nil, Wrap("ask processing failed", o.err))
                /\ UNCHANGED locals
           ELSE /\ locals' = [locals EXCEPT ![i].bestAsk = o.price,
                                            ![i].bidVolume = o.volume]
                /\ pc' = [pc EXCEPT ![i] = "bid"]
                /\ UNCHANGED <<ret, closeCalls>>
  /\ UNCHANGED <<now, urlOK, reqDeadline, startedAt, httpResp, doErr, depthResponse, timestamp,
                 doCalls, decodeCalls, saveCalls, rows>>

\* The bid entry processed, its error returned under the label of the ask.
ProcessBidAskLabel(i) ==
  /\ pc[i] = "bid"
  /\ LET o == processOrder(depthResponse[i].Bids[1])
     IN  IF Len(depthResponse[i].Bids) = 0
           THEN /\ Panic(i)
                /\ UNCHANGED locals
         ELSE IF o.err # NilErr
           THEN /\ Return(i, Nil, Wrap("ask processing failed", o.err))
                /\ UNCHANGED locals
           ELSE /\ locals' = [locals EXCEPT ![i].bestBid = o.price,
                                            ![i].askVolume = o.volume]
                /\ pc' = [pc EXCEPT ![i] = "stamp"]
                /\ UNCHANGED <<ret, closeCalls>>
  /\ UNCHANGED <<now, urlOK, reqDeadline, startedAt, httpResp, doErr, depthResponse, timestamp,
                 doCalls, decodeCalls, saveCalls, rows>>

\* bestBid, askVolume, err := processOrder(depthResponse.Bids[0])
ProcessBid(i) ==
  /\ pc[i] = "bid"
  /\ LET o == processOrder(depthResponse[i].Bids[1])
     IN  IF Len(depthResponse[i].Bids) = 0
           THEN /\ Panic(i)
                /\ UNCHANGED locals
         ELSE IF o.err # NilErr
           THEN /\ Return(i, Nil, Wrap("bid processing failed", o.err))
                /\ UNCHANGED locals
           ELSE /\ locals' = [locals EXCEPT ![i].bestBid = o.price,
                                            ![i].askVolume = o.volume]
                /\ pc' = [pc EXCEPT ![i] = "stamp"]
                /\ UNCHANGED <<ret, closeCalls>>
  /\ UNCHANGED <<now, urlOK, reqDeadline, startedAt, httpResp, doErr, depthResponse, timestamp,
                 doCalls, decodeCalls, saveCalls, rows>>

\* The timestamp taken as the instant the handler was entered.
TakeTimestampAtStart(i) ==
  /\ pc[i] = "stamp"
  /\ timestamp' = [timestamp EXCEPT ![i] = startedAt[i]]
  /\ pc' = [pc EXCEPT ![i] = "save"]
  /\ UNCHANGED <<now, urlOK, reqDeadline, startedAt, httpResp, doErr, depthResponse, locals, ret,
                 doCalls, decodeCalls, saveCalls, closeCalls, rows>>

\* timestamp := time.Now()
TakeTimestamp(i) ==
  /\ pc[i] = "stamp"
  /\ timestamp' = [timestamp EXCEPT ![i] = now]
  /\ pc' = [pc EXCEPT ![i] = "save"]
  /\ UNCHANGED <<now, urlOK, reqDeadline, startedAt, httpResp, doErr, depthResponse, locals, ret,
                 doCalls, decodeCalls, saveCalls, closeCalls, rows>>

\* The arguments of s.storage.SaveRate(bestAsk, bestBid, askVolume, bidVolume, timestamp)
SaveArgsOwnVolumes(i) ==
  [ask |-> locals[i].bestAsk, bid |-> locals[i].bestBid,
   askAmount |-> locals[i].bidVolume, bidAmount |-> locals[i].askVolume,
   ts |-> timestamp[i]]

SaveArgs(i) ==
  [ask |-> locals[i].bestAsk, bid |-> locals[i].bestBid,
   askAmount |-> locals[i].askVolume, bidAmount |-> locals[i].bidVolume,
   ts |-> timestamp[i]]

\* time.Time.Format(time.RFC3339): the text of the instant, to the second.
FormatRFC3339(t) == <<"RFC3339", t>>

\* The response of lines 323-330.
ResponseNotNarrowed(i) ==
  [Success |-> TRUE,
   Ask |-> locals[i].bestAsk, Bid |-> locals[i].bestBid,
   AskAmount |-> locals[i].askVolume, BidAmount |-> locals[i].bidVolume,
   Timestamp |-> FormatRFC3339(timestamp[i])]

Response(i) ==
  [Success |-> TRUE,
   Ask |-> Float32(locals[i].bestAsk), Bid |-> Float32(locals[i].bestBid),
   AskAmount |-> Float32(locals[i].askVolume), BidAmount |-> Float32(locals[i].bidVolume),
   Timestamp |-> FormatRFC3339(timestamp[i])]

\* s.storage.SaveRate fails and is called a second time.
SaveErrorRetried(i) ==
  /\ pc[i] = "save"
  /\ saveCalls' = [saveCalls EXCEPT ![i] =
                     Append(Append(@, [args |-> SaveArgs(i), err |-> <<"save error">>]),
                            [args |-> SaveArgs(i), err |-> <<"save error">>])]
  /\ Return(i, Nil, Wrap("save rate failed", <<"save error">>))
  /\ UNCHANGED <<now, urlOK, reqDeadline, startedAt, httpResp, doErr, depthResponse, locals, timestamp,
                 doCalls, decodeCalls, rows>>

\* s.storage.SaveRate fails.
SaveError(i) ==
  /\ pc[i] = "save"
  /\ saveCalls' = [saveCalls EXCEPT ![i] =
                     Append(@, [args |-> SaveArgs(i), err |-> <<"save error">>])]
  /\ Return(i, Nil, Wrap("save rate failed", <<"save error">>))
  /\ UNCHANGED <<now, urlOK, reqDeadline, startedAt, httpResp, doErr, depthResponse, locals, timestamp,
                 doCalls, decodeCalls, rows>>

\* s.storage.SaveRate succeeds and the response is returned.
SaveOK(i) ==
  /\ pc[i] = "save"
  /\ saveCalls' = [saveCalls EXCEPT ![i] = Append(@, [args |-> SaveArgs(i), err |-> NilErr])]
  /\ rows' = Append(rows, SaveArgs(i))
  /\ Return(i, {Response(i)}, NilErr)
  /\ UNCHANGED <<now, urlOK, reqDeadline, startedAt, httpResp, doErr, depthResponse, locals, timestamp,
                 doCalls, decodeCalls>>

\* ------------------------------------------------------------------------
\* main: startup
\* ------------------------------------------------------------------------

\* time.Sleep(1 * time.Second)
SleepSeconds == 1

\* context.WithTimeout(..., 10*time.Second) and time.After(10 * time.Second)
ShutdownTimeout == 10

\* The process runs: it has not exited, nor died in logger.Fatal or of a signal.
Alive == mainPc \notin {"exit", "fatal", "killed"}

\* The process ends: the calls being served end with it.
CutOff == [i \in Inv |-> IF rpc[i] = "running" THEN "cutoff" ELSE rpc[i]]

\* logger.Fatal: os.Exit(1), no deferred function runs.
Fatal ==
  /\ mainPc' = "fatal"
  /\ rpc' = CutOff

\* tp, err := optel.InitTracer(...)
InitTracer ==
  /\ mainPc = "InitTracer"
  /\ \/ /\ tpState' = "active"
        /\ mainPc' = "CreateStorage"
        /\ UNCHANGED rpc
     \/ /\ Fatal
        /\ UNCHANGED tpState
  /\ UNCHANGED <<now, rateVars, dbVars, sideVars, rateService, probes, sleepUntil, tpShutdowns, storeState, migrated, srv,
                 metricsSrv, signals, ctxDeadline, timerAt, selected,
                 gsPc, stopDoneAt, hsReturnedAt>>

\* store, err := utils.CreateStorage(cfg)
CreateStorage ==
  /\ mainPc = "CreateStorage"
  /\ \/ /\ storeState' = "open"
        /\ mainPc' = "ApplyMigrations"
        /\ UNCHANGED rpc
     \/ /\ Fatal
        /\ UNCHANGED storeState
  /\ UNCHANGED <<now, rateVars, dbVars, sideVars, rateService, probes, sleepUntil, tpState, tpShutdowns, migrated, srv,
                 metricsSrv, signals, ctxDeadline, timerAt, selected,
                 gsPc, stopDoneAt, hsReturnedAt>>

\* utils.ApplyMigrations with its error logged instead of fatal.
ApplyMigrationsErrorLogged ==
  /\ mainPc = "ApplyMigrations"
  /\ \/ /\ migrated' = TRUE
        /\ mainPc' = "CreateRateService"
        /\ UNCHANGED rpc
     \/ /\ mainPc' = "CreateRateService"
        /\ UNCHANGED <<migrated, rpc>>
  /\ UNCHANGED <<now, rateVars, dbVars, sideVars, rateService, probes, sleepUntil, tpState, tpShutdowns,
                 storeState, srv, metricsSrv, signals, ctxDeadline, timerAt, selected,
                 gsPc, stopDoneAt, hsReturnedAt>>

\* utils.ApplyMigrations(store, cfg, logger)
ApplyMigrations ==
  /\ mainPc = "ApplyMigrations"
  /\ \/ /\ migrated' = TRUE
        /\ mainPc' = "CreateRateService"
        /\ UNCHANGED rpc
     \/ /\ Fatal
        /\ UNCHANGED migrated
  /\ UNCHANGED <<now, rateVars, dbVars, sideVars, rateService, probes, sleepUntil, tpState, tpShutdowns, storeState, srv,
                 metricsSrv, signals, ctxDeadline, timerAt, selected,
                 gsPc, stopDoneAt, hsReturnedAt>>

\* rateService := utils.CreateRateService(store, logger, cfg)
CreateRateService ==
  /\ mainPc = "CreateRateService"
  /\ rateService' = "created"
  /\ mainPc' = "StartServer"
  /\ UNCHANGED <<now, rateVars, dbVars, sideVars, probes, sleepUntil, tpState, tpShutdowns, storeState, migrated,
                 srv, metricsSrv, signals, ctxDeadline, timerAt, selected,
                 gsPc, stopDoneAt, hsReturnedAt, rpc>>

\* utils.StartServer: net.Listen, then go grpcServer.Serve(lis)
StartServer ==
  /\ mainPc = "StartServer"
  /\ \/ /\ srv' = "listening"
        /\ mainPc' = "Sleep"
        /\ UNCHANGED rpc
     \/ /\ Fatal
        /\ UNCHANGED srv
  /\ UNCHANGED <<now, rateVars, dbVars, sideVars, rateService, probes, sleepUntil, tpState, tpShutdowns, storeState, migrated,
                 metricsSrv, signals, ctxDeadline, timerAt, selected,
                 gsPc, stopDoneAt, hsReturnedAt>>

\* The goroutine of StartServer: grpcServer.Serve(lis) starts to accept.
Serve ==
  /\ Alive
  /\ srv = "listening"
  /\ srv' = "serving"
  /\ UNCHANGED <<now, rateVars, dbVars, sideVars, rateService, probes, mainPc, sleepUntil, tpState, tpShutdowns, storeState,
                 migrated, metricsSrv, signals, ctxDeadline, timerAt,
                 selected, gsPc, stopDoneAt, hsReturnedAt, rpc>>

\* grpcServer.Serve returns an error: logger.Fatal("Failed to serve").
ServeFails ==
  /\ Alive
  /\ srv \in {"listening", "serving"}
  /\ Fatal
  /\ UNCHANGED <<now, rateVars, dbVars, sideVars, rateService, probes, sleepUntil, tpState, tpShutdowns, storeState, migrated,
                 srv, metricsSrv, signals, ctxDeadline, timerAt, selected,
                 gsPc, stopDoneAt, hsReturnedAt>>

\* time.Sleep(1 * time.Second) begins.
SleepStart ==
  /\ mainPc = "Sleep"
  /\ sleepUntil = NoTime
  /\ sleepUntil' = now + SleepSeconds
  /\ UNCHANGED <<now, rateVars, dbVars, sideVars, rateService, probes, mainPc, tpState, tpShutdowns, storeState, migrated, srv,
                 metricsSrv, signals, ctxDeadline, timerAt, selected,
                 gsPc, stopDoneAt, hsReturnedAt, rpc>>

\* time.Sleep returns.
SleepEnd ==
  /\ mainPc = "Sleep"
  /\ sleepUntil # NoTime
  /\ now >= sleepUntil
  /\ mainPc' = "PerformHealthCheck"
  /\ UNCHANGED <<now, rateVars, dbVars, sideVars, rateService, probes, sleepUntil, tpState, tpShutdowns, storeState, migrated,
                 srv, metricsSrv, signals, ctxDeadline, timerAt, selected,
                 gsPc, stopDoneAt, hsReturnedAt, rpc>>

\* The failed probe ending main by a return: the deferred tp.Shutdown runs.
PerformHealthCheckDeferredRun ==
  /\ mainPc = "PerformHealthCheck"
  /\ \/ /\ srv = "serving"
        /\ probes' = Append(probes, "SERVING")
        /\ mainPc' = "Metrics"
        /\ UNCHANGED <<rpc, tpState, tpShutdowns>>
     \/ /\ probes' = Append(probes, "error")
        /\ tpState' = "shutdown"
        /\ tpShutdowns' = tpShutdowns + 1
        /\ Fatal
  /\ UNCHANGED <<now, rateVars, dbVars, sideVars, rateService, sleepUntil, storeState, migrated,
                 srv, metricsSrv, signals, ctxDeadline, timerAt, selected,
                 gsPc, stopDoneAt, hsReturnedAt>>

\* utils.PerformHealthCheck: Check answers SERVING once the server serves;
\* the dial or the call may fail.
PerformHealthCheck ==
  /\ mainPc = "PerformHealthCheck"
  /\ \/ /\ srv = "serving"
        /\ probes' = Append(probes, "SERVING")
        /\ mainPc' = "Metrics"
        /\ UNCHANGED rpc
     \/ /\ probes' = Append(probes, "error")
        /\ Fatal
  /\ UNCHANGED <<now, rateVars, dbVars, sideVars, rateService, sleepUntil, tpState, tpShutdowns, storeState, migrated,
                 srv, metricsSrv, signals, ctxDeadline, timerAt, selected,
                 gsPc, stopDoneAt, hsReturnedAt>>

\* go func() { http.Handle(...); http.ListenAndServe(...) }()
StartMetrics ==
  /\ mainPc = "Metrics"
  /\ metricsSrv' = "spawned"
  /\ mainPc' = "HandleSignals"
  /\ UNCHANGED <<now, rateVars, dbVars, sideVars, rateService, probes, sleepUntil, tpState, tpShutdowns, storeState, migrated,
                 srv, signals, ctxDeadline, timerAt, selected,
                 gsPc, stopDoneAt, hsReturnedAt, rpc>>

\* The metrics goroutine: ListenAndServe serves, or fails and is logged.
MetricsListen ==
  /\ Alive
  /\ metricsSrv = "spawned"
  /\ metricsSrv' \in {"serving", "failed"}
  /\ UNCHANGED <<now, rateVars, dbVars, sideVars, rateService, probes, mainPc, sleepUntil, tpState, tpShutdowns, storeState,
                 migrated, srv, signals, ctxDeadline, timerAt, selected,
                 gsPc, stopDoneAt, hsReturnedAt, rpc>>

\* ------------------------------------------------------------------------
\* The gRPC server dispatching GetRateFromExchange
\* ------------------------------------------------------------------------

\* The server accepts new calls while it serves.
Accepting == srv = "serving"

\* A call arrives and its handler starts.
RPCStart(i) ==
  /\ Alive
  /\ Accepting
  /\ rpc[i] = "idle"
  /\ rpc' = [rpc EXCEPT ![i] = "running"]
  /\ UNCHANGED <<now, rateVars, dbVars, sideVars, rateService, probes, mainPc, sleepUntil, tpState, tpShutdowns, storeState,
                 migrated, srv, metricsSrv, signals, ctxDeadline, timerAt,
                 selected, gsPc, stopDoneAt, hsReturnedAt>>

\* The handler returns.
RPCFinish(i) ==
  /\ Alive
  /\ rpc[i] = "running"
  /\ rpc' = [rpc EXCEPT ![i] = "finished"]
  /\ UNCHANGED <<now, rateVars, dbVars, sideVars, rateService, probes, mainPc, sleepUntil, tpState, tpShutdowns, storeState,
                 migrated, srv, metricsSrv, signals, ctxDeadline, timerAt,
                 selected, gsPc, stopDoneAt, hsReturnedAt>>

\* ------------------------------------------------------------------------
\* HandleSignals
\* ------------------------------------------------------------------------

\* signal.Notify(signals, syscall.SIGINT, syscall.SIGTERM)
Notify ==
  /\ mainPc = "HandleSignals"
  /\ mainPc' = "hs_wait"
  /\ UNCHANGED <<now, rateVars, dbVars, sideVars, rateService, probes, sleepUntil, tpState, tpShutdowns, storeState, migrated,
                 srv, metricsSrv, signals, ctxDeadline, timerAt, selected,
                 gsPc, stopDoneAt, hsReturnedAt, rpc>>

Notified == mainPc \in {"hs_wait", "hs_tp", "hs_ctx", "hs_go", "hs_select", "hs_returned",
                        "deferred"}

\* SIGINT or SIGTERM is sent to the process: before Notify it ends the
\* process, after Notify it goes to the channel when there is room.
Signal ==
  /\ Alive
  /\ IF Notified
       THEN /\ signals = 0
            /\ signals' = 1
            /\ UNCHANGED <<mainPc, rpc>>
       ELSE /\ mainPc' = "killed"
            /\ rpc' = CutOff
            /\ UNCHANGED signals
  /\ UNCHANGED <<now, rateVars, dbVars, sideVars, rateService, probes, sleepUntil, tpState, tpShutdowns, storeState, migrated,
                 srv, metricsSrv, ctxDeadline, timerAt, selected,
                 gsPc, stopDoneAt, hsReturnedAt>>

\* sig := <-signals
ReceiveSignal ==
  /\ mainPc = "hs_wait"
  /\ signals > 0
  /\ signals' = signals - 1
  /\ mainPc' = "hs_tp"
  /\ UNCHANGED <<now, rateVars, dbVars, sideVars, rateService, probes, sleepUntil, tpState, tpShutdowns, storeState, migrated,
                 srv, metricsSrv, ctxDeadline, timerAt, selected,
                 gsPc, stopDoneAt, hsReturnedAt, rpc>>

\* tp.Shutdown(context.Background())
ShutdownTracer ==
  /\ mainPc = "hs_tp"
  /\ tpState' = "shutdown"
  /\ tpShutdowns' = tpShutdowns + 1
  /\ mainPc' = "hs_ctx"
  /\ UNCHANGED <<now, rateVars, dbVars, sideVars, rateService, probes, sleepUntil, storeState, migrated, srv, metricsSrv,
                 signals, ctxDeadline, timerAt, selected,
                 gsPc, stopDoneAt, hsReturnedAt, rpc>>

\* ctx, cancel := context.WithTimeout(context.Background(), 10*time.Second)
WithTimeout ==
  /\ mainPc = "hs_ctx"
  /\ ctxDeadline' = now + ShutdownTimeout
  /\ mainPc' = "hs_go"
  /\ UNCHANGED <<now, rateVars, dbVars, sideVars, rateService, probes, sleepUntil, tpState, tpShutdowns, storeState, migrated,
                 srv, metricsSrv, signals, timerAt, selected,
                 gsPc, stopDoneAt, hsReturnedAt, rpc>>

\* go func() { grpcServer.GracefulStop() }(), then the select is entered and
\* time.After(10 * time.Second) starts its timer.
SpawnGracefulStop ==
  /\ mainPc = "hs_go"
  /\ gsPc' = "spawned"
  /\ timerAt' = now + ShutdownTimeout
  /\ mainPc' = "hs_select"
  /\ UNCHANGED <<now, rateVars, dbVars, sideVars, rateService, probes, sleepUntil, tpState, tpShutdowns, storeState, migrated,
                 srv, metricsSrv, signals, ctxDeadline, selected,
                 stopDoneAt, hsReturnedAt, rpc>>

\* The goroutine calls grpcServer.GracefulStop(): the server stops accepting.
GracefulStopCall ==
  /\ Alive
  /\ gsPc = "spawned"
  /\ gsPc' = "waiting"
  /\ srv' = "draining"
  /\ UNCHANGED <<now, rateVars, dbVars, sideVars, rateService, probes, mainPc, sleepUntil, tpState, tpShutdowns, storeState,
                 migrated, metricsSrv, signals, ctxDeadline, timerAt,
                 selected, stopDoneAt, hsReturnedAt, rpc>>

\* GracefulStop returns once no call is being served.
GracefulStopReturn ==
  /\ Alive
  /\ gsPc = "waiting"
  /\ \A i \in Inv : rpc[i] # "running"
  /\ gsPc' = "done"
  /\ srv' = "stopped"
  /\ stopDoneAt' = now
  /\ UNCHANGED <<now, rateVars, dbVars, sideVars, rateService, probes, mainPc, sleepUntil, tpState, tpShutdowns, storeState,
                 migrated, metricsSrv, signals, ctxDeadline, timerAt,
                 selected, hsReturnedAt, rpc>>

\* The first case ready as well once GracefulStop has returned.
CtxDoneOrStopped == (ctxDeadline # NoTime /\ now >= ctxDeadline) \/ gsPc = "done"

\* The cases of the select of lines 153-158 that are ready.
CtxDone == ctxDeadline # NoTime /\ now >= ctxDeadline

TimerFired == timerAt # NoTime /\ now >= timerAt

SelectReady == CtxDone \/ TimerFired

\* case <-ctx.Done()
SelectCtxDone ==
  /\ mainPc = "hs_select"
  /\ CtxDone
  /\ selected' = "ctx"
  /\ hsReturnedAt' = now
  /\ mainPc' = "hs_returned"
  /\ UNCHANGED <<now, rateVars, dbVars, sideVars, rateService, probes, sleepUntil, tpState, tpShutdowns, storeState, migrated,
                 srv, metricsSrv, signals, ctxDeadline, timerAt,
                 gsPc, stopDoneAt, rpc>>

\* case <-time.After(10 * time.Second)
SelectTimer ==
  /\ mainPc = "hs_select"
  /\ TimerFired
  /\ selected' = "timer"
  /\ hsReturnedAt' = now
  /\ mainPc' = "hs_returned"
  /\ UNCHANGED <<now, rateVars, dbVars, sideVars, rateService, probes, sleepUntil, tpState, tpShutdowns, storeState, migrated,
                 srv, metricsSrv, signals, ctxDeadline, timerAt,
                 gsPc, stopDoneAt, rpc>>

\* The deferred function calling tp.Shutdown only on a provider still active.
DeferredShutdownOnce ==
  /\ mainPc = "hs_returned"
  /\ tpState' = "shutdown"
  /\ tpShutdowns' = IF tpState = "shutdown" THEN tpShutdowns ELSE tpShutdowns + 1
  /\ mainPc' = "deferred"
  /\ UNCHANGED <<now, rateVars, dbVars, sideVars, rateService, probes, sleepUntil, storeState, migrated, srv, metricsSrv,
                 signals, ctxDeadline, timerAt, selected,
                 gsPc, stopDoneAt, hsReturnedAt, rpc>>

\* main returns from HandleSignals: the deferred tp.Shutdown of lines 243-249.
DeferredShutdown ==
  /\ mainPc = "hs_returned"
  /\ tpState' = "shutdown"
  /\ tpShutdowns' = tpShutdowns + 1
  /\ mainPc' = "deferred"
  /\ UNCHANGED <<now, rateVars, dbVars, sideVars, rateService, probes, sleepUntil, storeState, migrated, srv, metricsSrv,
                 signals, ctxDeadline, timerAt, selected,
                 gsPc, stopDoneAt, hsReturnedAt, rpc>>

\* The deferred logger.Sync, and the process exits.
Exit ==
  /\ mainPc = "deferred"
  /\ mainPc' = "exit"
  /\ rpc' = CutOff
  /\ UNCHANGED <<now, rateVars, dbVars, sideVars, rateService, probes, sleepUntil, tpState, tpShutdowns, storeState, migrated,
                 srv, metricsSrv, signals, ctxDeadline, timerAt, selected,
                 gsPc, stopDoneAt, hsReturnedAt>>

\* One second passes. The statements from context.WithTimeout to the select
\* do not block, and a select whose case is ready runs before the clock moves.
Tick(limit) ==
  /\ now < limit
  /\ mainPc # "hs_go"
  /\ ~(mainPc = "hs_select" /\ SelectReady)
  /\ now' = now + 1
  /\ UNCHANGED <<rateVars, lifeVars, dbVars, sideVars>>

\* ------------------------------------------------------------------------
\* The health service
\* ------------------------------------------------------------------------

\* Service names a health request carries.
HealthRequests == {"", "usdt.RateService", "unknown"}

\* No call answered yet.
NoHealth ==
  [method |-> "none", service |-> "", srv |-> "none", status |-> "", err |-> NilErr,
   sent |-> <<>>]

\* Check answering for the state of the server instead.
CheckServerState(service) ==
  [status |-> IF srv = "serving" THEN "SERVING" ELSE "NOT_SERVING", err |-> NilErr]

\* (*HealthService).Check
Check(service) == [status |-> "SERVING", err |-> NilErr]

\* (*HealthService).Watch
Watch(service) == [sent |-> <<>>, err |-> <<"Unimplemented", "unimplemented">>]

\* The health service is registered with the server of StartServer.
Registered == srv # "none"

\* A client calls Check.
HealthCheck(service) ==
  /\ Alive
  /\ Registered
  /\ health' = [method |-> "Check", service |-> service, srv |-> srv,
                status |-> Check(service).status, err |-> Check(service).err,
                sent |-> <<>>]
  /\ UNCHANGED <<now, rateVars, lifeVars, dbVars, flags, environ, cfg>>

\* A client calls Watch.
HealthWatch(service) ==
  /\ Alive
  /\ Registered
  /\ health' = [method |-> "Watch", service |-> service, srv |-> srv,
                status |-> "", err |-> Watch(service).err,
                sent |-> Watch(service).sent]
  /\ UNCHANGED <<now, rateVars, lifeVars, dbVars, flags, environ, cfg>>

\* ------------------------------------------------------------------------
\* The configuration: LoadConfig, getValue, getIntValue
\* ------------------------------------------------------------------------

\* The settings modelled: a string, a required string and a port.
Settings == {"env", "db-user", "grpc-port"}

IntSettings == {"grpc-port"}

\* The built-in default of a setting.
BuiltIn(s) ==
  CASE s = "env" -> "local"
    [] s = "db-user" -> ""
    [] s = "grpc-port" -> "50051"

\* The values a flag is registered with as its default.
DefValues(s) == IF s \in IntSettings THEN {"0000"} ELSE {"", "a"}

\* The values a flag or an environment variable is set to.
SetValues(s) == IF s \in IntSettings THEN {"8080", "0000", "abc"} ELSE {"a", "b"}

\* strconv.Atoi succeeds.
AtoiOK(v) == v \in {"8080", "0000", "50051"}

\* strconv.Atoi
Atoi(v) ==
  CASE v = "8080" -> 8080
    [] v = "0000" -> 0
    [] v = "50051" -> 50051

\* A flag that is not in the FlagSet: Lookup returns nil.
NoFlag == [registered |-> FALSE, DefValue |-> "", Value |-> "", set |-> FALSE]

\* getValue(flags, flagName, envName, defaultValue)
getValue(f, e, d) ==
  IF f.registered /\ f.Value # f.DefValue THEN f.Value
  ELSE IF e # "" THEN e
  ELSE d

\* getIntValue(flags, flagName, envName, defaultValue)
getIntValue(f, e, d) ==
  IF f.registered /\ f.Value # f.DefValue /\ AtoiOK(f.Value) THEN Atoi(f.Value)
  ELSE IF e # "" /\ AtoiOK(e) THEN Atoi(e)
  ELSE d

\* validateConfig: a required setting is empty and logger.Fatal ends the process.
Invalid(c) == c.DBUser = ""

\* f.String(name, value, usage)
FlagString(s, d) ==
  /\ cfg = {}
  /\ ~flags[s].registered
  /\ flags' = [flags EXCEPT ![s] =
                 [registered |-> TRUE, DefValue |-> d, Value |-> d, set |-> FALSE]]
  /\ UNCHANGED <<now, rateVars, lifeVars, dbVars, health, environ, cfg>>

\* f.Set(name, value), or the flag given on the command line
FlagSet(s, v) ==
  /\ cfg = {}
  /\ flags[s].registered
  /\ flags' = [flags EXCEPT ![s].Value = v, ![s].set = TRUE]
  /\ UNCHANGED <<now, rateVars, lifeVars, dbVars, health, environ, cfg>>

\* os.Setenv(name, value), or the variable read from .env by godotenv.Load
Setenv(s, v) ==
  /\ cfg = {}
  /\ environ[s] = ""
  /\ environ' = [environ EXCEPT ![s] = v]
  /\ UNCHANGED <<now, rateVars, lifeVars, dbVars, health, flags, cfg>>

\* config.LoadConfig(logger, flags)
LoadConfig ==
  /\ cfg = {}
  /\ LET c == [Env |-> getValue(flags["env"], environ["env"], BuiltIn("env")),
               DBUser |-> getValue(flags["db-user"], environ["db-user"],
                                   BuiltIn("db-user")),
               GRPCPort |-> getIntValue(flags["grpc-port"], environ["grpc-port"],
                                        Atoi(BuiltIn("grpc-port")))]
     IN cfg' = {[Env |-> c.Env, DBUser |-> c.DBUser, GRPCPort |-> c.GRPCPort,
                 fatal |-> Invalid(c)]}
  /\ UNCHANGED <<now, rateVars, lifeVars, dbVars, health, flags, environ>>

\* ------------------------------------------------------------------------
\* The storage: the connectors, NewStorage, Migrate, SaveRate, Close
\* ------------------------------------------------------------------------

\* migrate.ErrNoChange
ErrNoChange == <<"no change">>

\* Migration paths, as sequences of characters.
Paths == {<<>>, <<" ">>, <<"m">>, <<"/", "m">>}

\* Data source names, as sequences of characters: without and with a query.
Dsns == {<<"d">>, <<"d", "?", "q">>}

\* Errors of the database driver and of the migration library.
OpenErrors == {NilErr, <<"open error">>}

PingErrors == {NilErr, <<"ping error">>}

ExecErrors == {NilErr, <<"exec error">>}

CloseErrors == {NilErr, <<"close error">>}

InitErrors == {NilErr, <<"init error">>}

UpErrors == {NilErr, <<"up error">>}

RECURSIVE TrimLeft(_)
TrimLeft(p) == IF p # <<>> /\ Head(p) = " " THEN TrimLeft(Tail(p)) ELSE p

RECURSIVE TrimRight(_)
TrimRight(p) ==
  IF p # <<>> /\ p[Len(p)] = " " THEN TrimRight(SubSeq(p, 1, Len(p) - 1)) ELSE p

\* strings.TrimSpace left out.
NoTrim(p) == p

\* strings.TrimSpace
TrimSpace(p) == TrimRight(TrimLeft(p))

\* strings.HasPrefix(p, c) for a one-character prefix
HasPrefix(p, c) == p # <<>> /\ Head(p) = c

\* strings.Split(dsn, "?")[0]
RECURSIVE BeforeQuery(_)
BeforeQuery(d) ==
  IF d = <<>> \/ Head(d) = "?" THEN <<>> ELSE <<Head(d)>> \o BeforeQuery(Tail(d))

\* migrationDSN of Migrate
MigrationDSN(d) ==
  BeforeQuery(d) \o <<"?sslmode=disable&x-migrations-table=schema_migrations">>

\* "file://"+migrationsPath, after the leading slash is added
SourceURL(path) == <<"file://">> \o (IF HasPrefix(path, "/") THEN path ELSE <<"/">> \o path)

\* DefaultDatabaseConnector.Open: sql.Open, with error e, unless d.db is set.
Open(db, e) ==
  IF db = "nil"
    THEN IF e # NilErr THEN [db |-> "nil", err |-> e] ELSE [db |-> "open", err |-> NilErr]
    ELSE [db |-> db, err |-> NilErr]

\* DefaultDatabaseConnector.Ping: d.db.Ping answers e on an open handle.
Ping(db, e) ==
  CASE db = "nil" -> <<"database not initialized">>
    [] db = "closed" -> <<"sql: database is closed">>
    [] db = "open" -> e

\* DefaultDatabaseConnector.ExecContext: d.db.ExecContext answers e on an
\* open handle.
ExecContext(db, e) ==
  CASE db = "nil" -> <<"database not initialized">>
    [] db = "closed" -> <<"sql: database is closed">>
    [] db = "open" -> e

\* DefaultDatabaseConnector.Close without the test of d.db.
DatabaseCloseUnguarded(db, e) ==
  CASE db = "nil" -> [db |-> "nil", called |-> FALSE, err |-> <<"database not initialized">>]
    [] db = "closed" -> [db |-> "closed", called |-> TRUE, err |-> NilErr]
    [] db = "open" -> [db |-> "closed", called |-> TRUE, err |-> e]

\* DefaultDatabaseConnector.Close: nil without a handle; sql.DB.Close releases
\* an open handle, with error e, and answers nil on a closed one.
DatabaseClose(db, e) ==
  CASE db = "nil" -> [db |-> "nil", called |-> FALSE, err |-> NilErr]
    [] db = "closed" -> [db |-> "closed", called |-> TRUE, err |-> NilErr]
    [] db = "open" -> [db |-> "closed", called |-> TRUE, err |-> e]

\* DefaultMigrateConnector.New: migrate.New, with error e, unless d.m is set.
New(m, e) ==
  IF m = "nil"
    THEN IF e # NilErr THEN [m |-> "nil", err |-> e] ELSE [m |-> "set", err |-> NilErr]
    ELSE [m |-> m, err |-> NilErr]

\* DefaultMigrateConnector.Up: d.m.Up fails with e, applies what is pending,
\* or reports that nothing is.
Up(m, isPending, e) ==
  CASE m = "nil" -> <<"migrate not initialized">>
    [] m # "nil" /\ e # NilErr -> e
    [] m # "nil" /\ e = NilErr /\ isPending -> NilErr
    [] m # "nil" /\ e = NilErr /\ ~isPending -> ErrNoChange

\* if err != nil after Open
OpenFailed(err) == err # NilErr

\* The test of Ping's error left out.
PingFailedIgnored(err) == FALSE

\* if err := dbConnector.Ping(); err != nil
PingFailed(err) == err # NilErr

\* The test of Up's error without the exemption of ErrNoChange.
UpFailedAnyError(err) == err # NilErr

\* err != nil && !errors.Is(err, migrate.ErrNoChange)
UpFailed(err) == err # NilErr /\ err # ErrNoChange

\* A call can be made: nothing has panicked and the bound is not reached.
CanCall == panicIn = "none" /\ ops < MaxOps

\* A method of a nil interface value is called: the goroutine panics.
NilPanic(method) ==
  /\ panicIn' = method
  /\ ops' = ops + 1

\* storage.NewStorage(dsn, dbConnector, migrateConnector)
NewStorage(d, eo, ep) ==
  /\ CanCall
  /\ storage = "none"
  /\ LET o == Open(sqlDB, eo)
         p == Ping(o.db, ep)
     IN /\ sqlDB' = o.db
        /\ IF OpenFailed(o.err)
             THEN /\ newStorageLog' = Append(newStorageLog,
                        [openErr |-> o.err, pingCalls |-> 0, pingErr |-> NilErr,
                         ret |-> "nil", err |-> Wrap("failed to open database", o.err)])
                  /\ UNCHANGED <<storage, dsn>>
             ELSE IF PingFailed(p)
               THEN /\ newStorageLog' = Append(newStorageLog,
                          [openErr |-> NilErr, pingCalls |-> 1, pingErr |-> p,
                           ret |-> "nil", err |-> Wrap("database ping failed", p)])
                    /\ UNCHANGED <<storage, dsn>>
               ELSE /\ newStorageLog' = Append(newStorageLog,
                          [openErr |-> NilErr, pingCalls |-> 1, pingErr |-> p,
                           ret |-> "storage", err |-> NilErr])
                    /\ storage' = "built"
                    /\ dsn' = d
  /\ ops' = ops + 1
  /\ UNCHANGED <<now, rateVars, lifeVars, sideVars, mig, pending, drift, panicIn, migrateLog,
                 saveLog, closeLog, dbRows, DBSaves, DBSaveLatency>>

\* storage := &Storage{dsn: "test_dsn"}, &Storage{db: nil}: the tests build a
\* Storage whose connectors are nil.
StorageLiteral ==
  /\ CanCall
  /\ storage = "none"
  /\ storage' = "literal"
  /\ dsn' = <<"d">>
  /\ ops' = ops + 1
  /\ UNCHANGED <<now, rateVars, lifeVars, sideVars, sqlDB, mig, pending, drift, panicIn,
                 newStorageLog, migrateLog, saveLog, closeLog, dbRows, DBSaves,
                 DBSaveLatency>>

\* What a call of Migrate that returns is recorded as.
MigrateEntry(path, newCalls, newErr, upCalls, upErr, err) ==
  [path |-> path, drift |-> drift,
   source |-> IF newCalls = 0 THEN <<>> ELSE SourceURL(path),
   database |-> IF newCalls = 0 THEN <<>> ELSE MigrationDSN(dsn),
   newCalls |-> newCalls, newErr |-> newErr, upCalls |-> upCalls, upErr |-> upErr,
   err |-> err]

\* (*Storage).Migrate(migrationsPath)
Migrate(path, en, eu) ==
  /\ CanCall
  /\ storage # "none"
  /\ IF TrimSpace(path) = <<>>
       THEN /\ migrateLog' = Append(migrateLog,
                  MigrateEntry(path, 0, NilErr, 0, NilErr,
                               <<"migrations path cannot be empty">>))
            /\ drift' = FALSE
            /\ ops' = ops + 1
            /\ UNCHANGED <<mig, pending, panicIn>>
       ELSE IF storage = "literal"
         THEN /\ NilPanic("Migrate")
              /\ UNCHANGED <<mig, pending, drift, migrateLog>>
         ELSE LET n == New(mig, en)
                  u == Up(n.m, pending, eu)
              IN /\ mig' = n.m
                 /\ IF n.err # NilErr
                      THEN /\ migrateLog' = Append(migrateLog,
                                 MigrateEntry(path, 1, n.err, 0, NilErr,
                                              Wrap("migration init failed", n.err)))
                           /\ UNCHANGED pending
                      ELSE /\ migrateLog' = Append(migrateLog,
                                 MigrateEntry(path, 1, NilErr, 1, u,
                                   IF UpFailed(u) THEN Wrap("migration up failed", u)
                                                  ELSE NilErr))
                           /\ pending' = IF u = NilErr THEN FALSE ELSE pending
                 /\ drift' = FALSE
                 /\ ops' = ops + 1
                 /\ UNCHANGED panicIn
  /\ UNCHANGED <<now, rateVars, lifeVars, sideVars, storage, dsn, sqlDB, newStorageLog, saveLog,
                 closeLog, dbRows, DBSaves, DBSaveLatency>>

\* A migration is added to the migrations directory.
SchemaDrift ==
  /\ CanCall
  /\ ~pending
  /\ pending' = TRUE
  /\ drift' = TRUE
  /\ ops' = ops + 1
  /\ UNCHANGED <<now, rateVars, lifeVars, sideVars, storage, dsn, sqlDB, mig, panicIn,
                 newStorageLog, migrateLog, saveLog, closeLog, dbRows, DBSaves,
                 DBSaveLatency>>

\* (*Storage).SaveRate(ctx, ask, bid, askAmount, bidAmount, ts)
SaveRate(e) ==
  /\ CanCall
  /\ storage # "none"
  /\ IF storage = "literal"
       THEN /\ NilPanic("SaveRate")
            /\ UNCHANGED <<saveLog, dbRows, DBSaves, DBSaveLatency>>
       ELSE LET r == ExecContext(sqlDB, e)
            IN /\ IF r # NilErr
                    THEN /\ saveLog' = Append(saveLog,
                               [execErr |-> r, err |-> Wrap("save rate failed", r)])
                         /\ UNCHANGED <<dbRows, DBSaves, DBSaveLatency>>
                    ELSE /\ saveLog' = Append(saveLog, [execErr |-> r, err |-> NilErr])
                         /\ dbRows' = dbRows + 1
                         /\ DBSaves' = DBSaves + 1
                         /\ DBSaveLatency' = DBSaveLatency + 1
               /\ ops' = ops + 1
               /\ UNCHANGED panicIn
  /\ UNCHANGED <<now, rateVars, lifeVars, sideVars, storage, dsn, sqlDB, mig, pending, drift,
                 newStorageLog, migrateLog, closeLog>>

\* (*Storage).Close()
StorageClose(e) ==
  /\ CanCall
  /\ storage # "none"
  /\ IF storage = "literal"
       THEN /\ NilPanic("Close")
            /\ UNCHANGED <<sqlDB, closeLog>>
       ELSE LET c == DatabaseClose(sqlDB, e)
            IN /\ sqlDB' = c.db
               /\ closeLog' = Append(closeLog,
                    [on |-> "Storage", before |-> sqlDB, released |-> c.called,
                     releaseErr |-> IF c.called THEN c.err ELSE NilErr,
                     err |-> IF c.err # NilErr
                               THEN Wrap("database close failed", c.err)
                               ELSE NilErr])
               /\ ops' = ops + 1
               /\ UNCHANGED panicIn
  /\ UNCHANGED <<now, rateVars, lifeVars, sideVars, storage, dsn, mig, pending, drift,
                 newStorageLog, migrateLog, saveLog, dbRows, DBSaves, DBSaveLatency>>

\* connector.Close(), called on the connector itself
ConnectorClose(e) ==
  /\ CanCall
  /\ LET c == DatabaseClose(sqlDB, e)
     IN /\ sqlDB' = c.db
        /\ closeLog' = Append(closeLog,
             [on |-> "connector", before |-> sqlDB, released |-> c.called,
              releaseErr |-> IF c.called THEN c.err ELSE NilErr, err |-> c.err])
  /\ ops' = ops + 1
  /\ UNCHANGED <<now, rateVars, lifeVars, sideVars, storage, dsn, mig, pending, drift, panicIn,
                 newStorageLog, migrateLog, saveLog, dbRows, DBSaves, DBSaveLatency>>

\* ------------------------------------------------------------------------
\* Specifications
\* ------------------------------------------------------------------------

RateInit ==
  /\ urlOK \in BOOLEAN
  /\ pc = [i \in Inv |-> "idle"]
  /\ startedAt = [i \in Inv |-> NoTime]
  /\ reqDeadline = [i \in Inv |-> NoTime]
  /\ httpResp = [i \in Inv |-> Nil]
  /\ doErr = [i \in Inv |-> NilErr]
  /\ depthResponse = [i \in Inv |-> NoDepth]
  /\ locals = [i \in Inv |-> NoLocals]
  /\ timestamp = [i \in Inv |-> NoTime]
  /\ ret = [i \in Inv |-> NoRet]
  /\ doCalls = [i \in Inv |-> 0]
  /\ decodeCalls = [i \in Inv |-> 0]
  /\ saveCalls = [i \in Inv |-> <<>>]
  /\ closeCalls = [i \in Inv |-> 0]
  /\ rows = <<>>

LifeInit ==
  /\ mainPc = "InitTracer"
  /\ sleepUntil = NoTime
  /\ tpState = "none"
  /\ tpShutdowns = 0
  /\ storeState = "none"
  /\ migrated = FALSE
  /\ rateService = "none"
  /\ probes = <<>>
  /\ srv = "none"
  /\ metricsSrv = "none"
  /\ signals = 0
  /\ ctxDeadline = NoTime
  /\ timerAt = NoTime
  /\ selected = "none"
  /\ gsPc = "none"
  /\ stopDoneAt = NoTime
  /\ hsReturnedAt = NoTime
  /\ rpc = [i \in Inv |-> "idle"]

StoreInit ==
  /\ storage = "none"
  /\ dsn = <<>>
  /\ sqlDB = "nil"
  /\ mig = "nil"
  /\ pending = TRUE
  /\ drift = FALSE
  /\ panicIn = "none"
  /\ ops = 0
  /\ newStorageLog = <<>>
  /\ migrateLog = <<>>
  /\ saveLog = <<>>
  /\ closeLog = <<>>
  /\ dbRows = 0
  /\ DBSaves = 0
  /\ DBSaveLatency = 0

SideInit ==
  /\ health = NoHealth
  /\ flags = [s \in Settings |-> NoFlag]
  /\ environ = [s \in Settings |-> ""]
  /\ cfg = {}

Init ==
  /\ now = 0
  /\ RateInit
  /\ LifeInit
  /\ StoreInit
  /\ SideInit

Step(i, R) ==
  \/ Enter(i)
  \/ NewRequest(i)
  \/ \E e \in TransportErrors : DoError(i, e)
  \/ pc[i] = "do" /\ \E r \in R : DoResponse(i, r)
  \/ CheckStatus(i)
  \/ DecodeBody(i)
  \/ CheckEmpty(i)
  \/ ProcessAsk(i)
  \/ ProcessBid(i)
  \/ TakeTimestamp(i)
  \/ SaveError(i)
  \/ SaveOK(i)

\* The pipeline: one invocation called directly, every response.
Next ==
  \/ Step(1, Responses) /\ UNCHANGED <<lifeVars, dbVars, sideVars>>
  \/ Tick(MaxTime)

Spec == Init /\ [][Next]_vars

\* The process: main, the goroutines it starts, the calls the server
\* dispatches and the signals sent to the process.
LifeNext ==
  \/ InitTracer
  \/ CreateStorage
  \/ ApplyMigrations
  \/ CreateRateService
  \/ StartServer
  \/ Serve
  \/ ServeFails
  \/ SleepStart
  \/ SleepEnd
  \/ PerformHealthCheck
  \/ StartMetrics
  \/ MetricsListen
  \/ \E i \in Inv : RPCStart(i)
  \/ \E i \in Inv : RPCFinish(i)
  \/ Notify
  \/ Signal
  \/ ReceiveSignal
  \/ ShutdownTracer
  \/ WithTimeout
  \/ SpawnGracefulStop
  \/ GracefulStopCall
  \/ GracefulStopReturn
  \/ SelectCtxDone
  \/ SelectTimer
  \/ DeferredShutdown
  \/ Exit
  \/ Tick(MaxLifeTime)

\* The process is started with a configuration whose URL is well formed.
LifeStart == Init /\ urlOK = TRUE

LifeSpec == LifeStart /\ [][LifeNext]_vars

\* The service under concurrent calls: the gRPC server runs each handler on
\* a goroutine of its own, and their steps interleave.
ConcNext ==
  \/ \E i \in Inv : Step(i, ConcResponses) /\ UNCHANGED <<lifeVars, dbVars, sideVars>>
  \/ Tick(MaxConcTime)

ConcStart == Init /\ urlOK = TRUE

ConcSpec == ConcStart /\ [][ConcNext]_vars

\* Two invocations given order books that differ after the first entries.
Pair == {1, 2}

TailNext ==
  \/ \E i \in Pair : Step(i, TailResponses) /\ UNCHANGED <<lifeVars, dbVars, sideVars>>
  \/ Tick(MaxConcTime)

TailStart == Init /\ urlOK = TRUE

TailSpec == TailStart /\ [][TailNext]_vars

\* The health service beside main: the process without the calls of
\* GetRateFromExchange, and the clients of the health service.
HealthNext ==
  \/ InitTracer
  \/ CreateStorage
  \/ ApplyMigrations
  \/ CreateRateService
  \/ StartServer
  \/ Serve
  \/ ServeFails
  \/ SleepStart
  \/ SleepEnd
  \/ PerformHealthCheck
  \/ StartMetrics
  \/ MetricsListen
  \/ Notify
  \/ Signal
  \/ ReceiveSignal
  \/ ShutdownTracer
  \/ WithTimeout
  \/ SpawnGracefulStop
  \/ GracefulStopCall
  \/ GracefulStopReturn
  \/ SelectCtxDone
  \/ SelectTimer
  \/ DeferredShutdown
  \/ Exit
  \/ \E service \in HealthRequests : HealthCheck(service)
  \/ \E service \in HealthRequests : HealthWatch(service)
  \/ Tick(MaxLifeTime)

HealthStart == Init /\ urlOK = TRUE

HealthSpec == HealthStart /\ [][HealthNext]_vars

\* The configuration: flags are registered and set, variables are put in the
\* environment, and LoadConfig is called once.
ConfigNext ==
  \/ \E s \in Settings : \E d \in DefValues(s) : FlagString(s, d)
  \/ \E s \in Settings : \E v \in SetValues(s) : FlagSet(s, v)
  \/ \E s \in Settings : \E v \in SetValues(s) : Setenv(s, v)
  \/ LoadConfig

ConfigStart == Init /\ urlOK = TRUE

ConfigSpec == ConfigStart /\ [][ConfigNext]_vars

\* The storage: the calls made on one Storage and on its connectors, and the
\* migrations added to the directory.
StoreNext ==
  \/ \E d \in Dsns, eo \in OpenErrors, ep \in PingErrors : NewStorage(d, eo, ep)
  \/ StorageLiteral
  \/ \E path \in Paths, en \in InitErrors, eu \in UpErrors : Migrate(path, en, eu)
  \/ SchemaDrift
  \/ \E e \in ExecErrors : SaveRate(e)
  \/ \E e \in CloseErrors : StorageClose(e)
  \/ \E e \in CloseErrors : ConnectorClose(e)

StoreStart == Init /\ urlOK = TRUE

StoreSpec == StoreStart /\ [][StoreNext]_vars

\* ------------------------------------------------------------------------
\* Properties of GetRateFromExchange
\* ------------------------------------------------------------------------

Done(i) == pc[i] = "done"

Ended(i) == pc[i] \in {"done", "panic"}

HasResp(i) == httpResp[i] # Nil

TheResp(i) == CHOOSE r \in httpResp[i] : TRUE

TheRet(i) == CHOOSE r \in ret[i].resp : TRUE

\* The order book the upstream sent, as the JSON document states it.
SentAsks(i) == IF TheResp(i).Body.asks.present THEN TheResp(i).Body.asks.items ELSE <<>>

SentBids(i) == IF TheResp(i).Body.bids.present THEN TheResp(i).Body.bids.items ELSE <<>>

IsBook(i) == HasResp(i) /\ TheResp(i).StatusCode = 200 /\ TheResp(i).Body.json

NumericEntry(e) == Len(e) >= 2 /\ ParseOK(e[1]) /\ ParseOK(e[2])

\* Status 200, a decodable book, both sides non-empty, both first entries numeric.
GoodBook(i) ==
  /\ IsBook(i)
  /\ SentAsks(i) # <<>> /\ SentBids(i) # <<>>
  /\ NumericEntry(SentAsks(i)[1]) /\ NumericEntry(SentBids(i)[1])

SaveFailed(i) == \E k \in 1..Len(saveCalls[i]) : saveCalls[i][k].err # NilErr

\* C1 as stated: with a good book and a successful write, the response is
\* non-nil with Success=true, Ask and Bid EQUAL to the parsed prices of asks[0]
\* and bids[0], and SaveRate was called exactly once with those ask and bid.
C1_AsStated ==
  \A i \in Inv :
    (Done(i) /\ GoodBook(i) /\ ~SaveFailed(i)) =>
      /\ ret[i].err = NilErr /\ ret[i].resp # Nil
      /\ TheRet(i).Success
      /\ TheRet(i).Ask = ParseFloat(SentAsks(i)[1][1])
      /\ TheRet(i).Bid = ParseFloat(SentBids(i)[1][1])
      /\ Len(saveCalls[i]) = 1
      /\ saveCalls[i][1].args.ask = ParseFloat(SentAsks(i)[1][1])
      /\ saveCalls[i][1].args.bid = ParseFloat(SentBids(i)[1][1])

\* The nearest multiple of g to x, ties to the even multiple.
RoundToGrid(x, g) ==
  LET q == x \div g
      r == x % g
  IN  IF 2 * r > g \/ (2 * r = g /\ q % 2 = 1) THEN (q + 1) * g ELSE q * g

\* x in single precision: values below 2^24 units are kept, values of
\* [2^24, 2^26) units fall on the grid of their binade.
Single(x) ==
  IF x < 16777216 THEN x
  ELSE IF x < 33554432 THEN RoundToGrid(x, 2)
  ELSE RoundToGrid(x, 4)

\* C1 amended: with a good book and a successful write, the response is
\* non-nil with Success=true, Ask and Bid are the parsed prices of asks[0] and
\* bids[0] narrowed to single precision, and SaveRate was called exactly once
\* with the parsed prices themselves.
C1_RateReturnedAndSaved ==
  \A i \in Inv :
    (Done(i) /\ GoodBook(i) /\ ~SaveFailed(i)) =>
      /\ ret[i].err = NilErr /\ ret[i].resp # Nil
      /\ TheRet(i).Success
      /\ TheRet(i).Ask = Single(ParseFloat(SentAsks(i)[1][1]))
      /\ TheRet(i).Bid = Single(ParseFloat(SentBids(i)[1][1]))
      /\ Len(saveCalls[i]) = 1
      /\ saveCalls[i][1].args.ask = ParseFloat(SentAsks(i)[1][1])
      /\ saveCalls[i][1].args.bid = ParseFloat(SentBids(i)[1][1])

\* A good book whose best ask price does not fit a float32 was saved and returned.
C1_Witness ==
  \E i \in Inv :
    /\ Done(i) /\ GoodBook(i) /\ ~SaveFailed(i)
    /\ SentAsks(i)[1][1] = "16777217" /\ SentBids(i)[1][1] = "1.5"
    /\ Len(saveCalls[i]) = 1 /\ ret[i].resp # Nil

Succeeded(i) == Done(i) /\ ret[i].err = NilErr

\* C2 as stated: on success the persisted and returned askAmount is the volume
\* of bids[0], the bidAmount is the volume of asks[0], and for each of the four
\* numeric fields the value passed to SaveRate and the value in the response
\* are the same.
C2_AsStated ==
  \A i \in Inv :
    Succeeded(i) =>
      /\ Len(saveCalls[i]) = 1 /\ ret[i].resp # Nil
      /\ saveCalls[i][1].args.askAmount = ParseFloat(SentBids(i)[1][2])
      /\ saveCalls[i][1].args.bidAmount = ParseFloat(SentAsks(i)[1][2])
      /\ TheRet(i).Ask = saveCalls[i][1].args.ask
      /\ TheRet(i).Bid = saveCalls[i][1].args.bid
      /\ TheRet(i).AskAmount = saveCalls[i][1].args.askAmount
      /\ TheRet(i).BidAmount = saveCalls[i][1].args.bidAmount

\* C2 amended: on success the persisted askAmount is the volume of bids[0] and
\* the persisted bidAmount is the volume of asks[0]; each of the four numeric
\* fields of the response is the value passed to SaveRate narrowed to single
\* precision.
C2_AmountsCrossed ==
  \A i \in Inv :
    Succeeded(i) =>
      /\ Len(saveCalls[i]) = 1 /\ ret[i].resp # Nil
      /\ saveCalls[i][1].args.askAmount = ParseFloat(SentBids(i)[1][2])
      /\ saveCalls[i][1].args.bidAmount = ParseFloat(SentAsks(i)[1][2])
      /\ TheRet(i).Ask = Single(saveCalls[i][1].args.ask)
      /\ TheRet(i).Bid = Single(saveCalls[i][1].args.bid)
      /\ TheRet(i).AskAmount = Single(saveCalls[i][1].args.askAmount)
      /\ TheRet(i).BidAmount = Single(saveCalls[i][1].args.bidAmount)

\* A success whose two best volumes differ, one of them not a float32.
C2_Witness ==
  \E i \in Inv :
    /\ Succeeded(i) /\ HasResp(i)
    /\ SentAsks(i)[1][2] = "16777217" /\ SentBids(i)[1][2] = "1.5"
    /\ TheRet(i).AskAmount = 3 /\ TheRet(i).BidAmount = 33554432

\* C3: a decoded book with empty asks or empty bids makes the invocation
\* return an error, and SaveRate is not called.
C3_EmptyBookFails ==
  \A i \in Inv :
    (Ended(i) /\ IsBook(i) /\ (SentAsks(i) = <<>> \/ SentBids(i) = <<>>)) =>
      /\ Done(i)
      /\ ret[i].err # NilErr
      /\ saveCalls[i] = <<>>

\* Only one side is empty and the other holds a numeric entry; the invocation ended.
C3_Witness ==
  \E i \in Inv :
    /\ Done(i) /\ IsBook(i)
    /\ SentAsks(i) # <<>> /\ NumericEntry(SentAsks(i)[1]) /\ SentBids(i) = <<>>
    /\ ret[i].err = <<"empty response from binance">>

\* The first entries reach processOrder and one of them is short or unparsable.
BadFirstEntry(i) ==
  /\ IsBook(i)
  /\ SentAsks(i) # <<>> /\ SentBids(i) # <<>>
  /\ ~(NumericEntry(SentAsks(i)[1]) /\ NumericEntry(SentBids(i)[1]))

NamesField(err) ==
  \E k \in 1..Len(err) : err[k] \in {"price parsing error", "volume parsing error"}

\* C4 as stated: with a short or unparsable asks[0] or bids[0] the invocation
\* returns an error whose message names the field (price or volume) that
\* failed, and SaveRate is not called.
C4_AsStated ==
  \A i \in Inv :
    (Ended(i) /\ BadFirstEntry(i)) =>
      /\ Done(i)
      /\ ret[i].err # NilErr
      /\ NamesField(ret[i].err)
      /\ saveCalls[i] = <<>>

\* What is wrong with an entry: its length, else its price, else its volume.
EntryFault(e) ==
  IF Len(e) < 2 THEN "invalid order format"
  ELSE IF ~ParseOK(e[1]) THEN "price parsing error"
  ELSE "volume parsing error"

\* C4 amended: with a short or unparsable asks[0] or bids[0] the invocation
\* returns an error and SaveRate is not called; the message names the side
\* (asks[0] is examined first) and then the price or, when the price parses,
\* the volume that failed to parse, while an entry with fewer than two
\* elements is reported as "invalid order format" with no field named.
C4_MalformedOrderFails ==
  \A i \in Inv :
    (Ended(i) /\ BadFirstEntry(i)) =>
      /\ Done(i)
      /\ ret[i].resp = Nil
      /\ saveCalls[i] = <<>>
      /\ Len(ret[i].err) >= 2
      /\ IF ~NumericEntry(SentAsks(i)[1])
           THEN /\ ret[i].err[1] = "ask processing failed"
                /\ ret[i].err[2] = EntryFault(SentAsks(i)[1])
           ELSE /\ ret[i].err[1] = "bid processing failed"
                /\ ret[i].err[2] = EntryFault(SentBids(i)[1])

\* asks[0] is numeric and bids[0] has a volume that does not parse.
C4_Witness ==
  \E i \in Inv :
    /\ Done(i) /\ BadFirstEntry(i)
    /\ NumericEntry(SentAsks(i)[1])
    /\ SentBids(i)[1] = <<"1.5", "abc">>
    /\ ret[i].err[2] = "volume parsing error"

Contains(err, text) == \E k \in 1..Len(err) : err[k] = text

\* C5: with a status other than 200 the invocation returns an error that
\* carries the status text, and neither Decode nor SaveRate is called,
\* whatever the body is.
C5_Non200Fails ==
  \A i \in Inv :
    (Ended(i) /\ HasResp(i) /\ TheResp(i).StatusCode # 200) =>
      /\ Done(i)
      /\ ret[i].err # NilErr /\ ret[i].resp = Nil
      /\ Contains(ret[i].err, TheResp(i).Status)
      /\ decodeCalls[i] = 0
      /\ saveCalls[i] = <<>>

\* A 2xx status other than 200 came with a body that is a valid order book.
C5_Witness ==
  \E i \in Inv :
    /\ Done(i) /\ HasResp(i)
    /\ TheResp(i).StatusCode = 201 /\ TheResp(i).Body = ValidBook
    /\ ret[i].err # NilErr

\* C6: at every exit either the error is nil and the response is non-nil with
\* Success=true, the numeric fields and the timestamp set, or the error is
\* non-nil and the response is nil.
C6_NoPartialResult ==
  \A i \in Inv :
    Done(i) =>
      \/ /\ ret[i].err = NilErr /\ ret[i].resp # Nil
         /\ TheRet(i).Success
         /\ TheRet(i).Timestamp = FormatRFC3339(timestamp[i]) /\ timestamp[i] # NoTime
         /\ TheRet(i).Ask = Single(locals[i].bestAsk)
         /\ TheRet(i).Bid = Single(locals[i].bestBid)
         /\ TheRet(i).AskAmount = Single(locals[i].askVolume)
         /\ TheRet(i).BidAmount = Single(locals[i].bidVolume)
      \/ ret[i].err # NilErr /\ ret[i].resp = Nil

\* SaveRate failed after a successful fetch, decode and extraction.
C6_Witness ==
  \E i \in Inv :
    /\ Done(i) /\ GoodBook(i) /\ SaveFailed(i)
    /\ ret[i].err[1] = "save rate failed" /\ ret[i].resp = Nil

\* C7: when Do returns a transport error the invocation returns that error
\* wrapped as a fetch failure, Decode and SaveRate are not called, and Do was
\* called exactly once.
C7_TransportErrorNoRetry ==
  \A i \in Inv :
    (Ended(i) /\ doErr[i] # NilErr) =>
      /\ Done(i)
      /\ ret[i].resp = Nil
      /\ ret[i].err = Wrap("fetch rates failed", doErr[i])
      /\ decodeCalls[i] = 0
      /\ saveCalls[i] = <<>>
      /\ doCalls[i] = 1

\* Do failed and the invocation returned.
C7_Witness ==
  \E i \in Inv :
    /\ Done(i) /\ doErr[i] = <<"network error">> /\ doCalls[i] = 1
    /\ ret[i].err[1] = "fetch rates failed"

\* ------------------------------------------------------------------------
\* Properties of HandleSignals
\* ------------------------------------------------------------------------

\* The earlier of the end of the grace period and the return of GracefulStop.
FirstOfDeadlineAndStop ==
  IF stopDoneAt # NoTime /\ stopDoneAt < ctxDeadline THEN stopDoneAt ELSE ctxDeadline

\* C8 as stated: after a signal HandleSignals returns as soon as the grace
\* period has elapsed or GracefulStop has completed, whichever is first; when
\* GracefulStop completes before the end of the period, HandleSignals returns
\* at that time.
C8_AsStated ==
  hsReturnedAt # NoTime => hsReturnedAt = FirstOfDeadlineAndStop

\* C9 as stated: the tracer provider is never shut down while the transport
\* has not yet been asked to stop (GracefulStop initiated).
C9_AsStated ==
  tpShutdowns > 0 => gsPc # "none"

\* The grace period has begun: the signal was received and the context with
\* the 10-second deadline exists.
GraceBegun == ctxDeadline # NoTime

\* C10 as stated: once the grace period has begun no new GetRateFromExchange
\* invocation starts, and an invocation in flight runs to completion or is cut
\* off when the grace period ends.
C10_AsStated ==
  [][GraceBegun =>
       \A i \in Inv :
         /\ rpc[i] = "idle" => rpc'[i] = "idle"
         /\ (rpc[i] = "running" /\ rpc'[i] = "cutoff") => now >= ctxDeadline]_vars

\* ------------------------------------------------------------------------
\* Properties of main
\* ------------------------------------------------------------------------

\* C11 as stated: on the shutdown path (signal received, HandleSignals
\* returned, main returned) Storage.Close has been called on the storage
\* opened at startup before the process ends.
C11_AsStated ==
  mainPc = "exit" => storeState = "closed"

\* The steps of the startup, in the order of main.
StartupOrder ==
  <<"InitTracer", "CreateStorage", "ApplyMigrations", "CreateRateService",
    "StartServer", "Sleep", "PerformHealthCheck", "Metrics", "HandleSignals">>

\* What step k of StartupOrder leaves behind when it succeeds.
StepDone(k) ==
  CASE k = 1 -> tpState # "none"
    [] k = 2 -> storeState = "open"
    [] k = 3 -> migrated
    [] k = 4 -> rateService = "created"
    [] k = 5 -> srv # "none"
    [] k = 7 -> probes = <<"SERVING">>

\* The steps that leave something behind.
Effective == {1, 2, 3, 4, 5, 7}

\* main waits for a signal, or is beyond the wait.
SignalWaitReached ==
  mainPc \in {"hs_wait", "hs_tp", "hs_ctx", "hs_go", "hs_select", "hs_returned",
              "deferred", "exit"}

\* The state of a startup in order: a step has run only if every earlier step
\* succeeded, main stands at step k exactly when the steps before k have
\* succeeded and no step from k on has run, there is at most one health
\* probe, a failed probe ends the process, and the signal wait is reached
\* only with a passed probe.
StartupInOrder ==
  /\ \A j, k \in Effective : (j < k /\ StepDone(k)) => StepDone(j)
  /\ \A k \in 1..Len(StartupOrder) :
       mainPc = StartupOrder[k] => \A j \in Effective : StepDone(j) <=> j < k
  /\ Len(probes) <= 1
  /\ probes # <<>> => srv # "none"
  /\ probes = <<"error">> => mainPc = "fatal"
  /\ SignalWaitReached => probes = <<"SERVING">>

\* What the startup steps leave behind.
startupVars == <<tpState, storeState, migrated, rateService, srv, probes>>

\* A failing step leaves nothing behind (but the outcome of the probe), and
\* after it nothing runs.
FailFast ==
  /\ (mainPc # "fatal" /\ mainPc' = "fatal") =>
       UNCHANGED <<tpState, storeState, migrated, rateService, srv>>
  /\ mainPc = "fatal" => UNCHANGED <<mainPc, startupVars, metricsSrv, rpc>>

\* C12: the startup is ordered and fail-fast: tracer initialisation,
\* repository open, migration, service construction, listener start and the
\* single health probe run in that order, each only after every earlier step
\* succeeded; a failing step ends the process and no later step runs, so the
\* listener is never started with an unopened or unmigrated repository and
\* the signal wait is never reached without a passed health probe.
C12_StartupOrderedFailFast ==
  []StartupInOrder /\ [][FailFast]_vars

\* The migration failed: the process ended with the repository open, no
\* service built and no listener started.
C12_Witness ==
  /\ mainPc = "fatal"
  /\ storeState = "open" /\ ~migrated
  /\ rateService = "none" /\ srv = "none" /\ probes = <<>>

\* ------------------------------------------------------------------------
\* Properties of the storage
\* ------------------------------------------------------------------------

\* Two calls of Migrate in a row, the second with the path of the first and
\* no schema change in between.
Repeated(k) ==
  /\ k \in 1..(Len(migrateLog) - 1)
  /\ migrateLog[k + 1].path = migrateLog[k].path
  /\ ~migrateLog[k + 1].drift

\* C13: Migrate is idempotent: when a call of Migrate returned nil and is
\* repeated with the same path and no schema change in between, the runner
\* is there, Up is called and either reports that nothing is pending, and
\* then the second call returns nil too, or fails for a reason of its own.
C13_MigrateIdempotent ==
  \A k \in 1..(Len(migrateLog) - 1) :
    (Repeated(k) /\ migrateLog[k].err = NilErr) =>
      LET second == migrateLog[k + 1]
      IN /\ second.newErr = NilErr
         /\ second.upCalls = 1
         /\ second.upErr # NilErr
         /\ second.upErr = ErrNoChange => second.err = NilErr
         /\ second.err # NilErr => second.upErr = <<"up error">>

\* The first call applied the migrations, the second found nothing pending,
\* and both returned nil.
C13_Witness ==
  \E k \in 1..(Len(migrateLog) - 1) :
    /\ Repeated(k)
    /\ migrateLog[k].upErr = NilErr /\ migrateLog[k].err = NilErr
    /\ migrateLog[k + 1].upErr = ErrNoChange /\ migrateLog[k + 1].err = NilErr

\* A path that is empty or holds nothing but spaces.
Blank(path) == \A k \in 1..Len(path) : path[k] = " "

\* Up answered nil or the no-change result.
UpAccepted(e) == e.upCalls = 1 /\ e.upErr \in {NilErr, ErrNoChange}

\* C14: Migrate returns nil exactly when the runner was created and Up
\* returned nil or the no-change result; it returns an error for an empty or
\* blank path, without calling the migration connector at all, when the
\* creation of the runner fails, without calling Up, and when Up fails with
\* an error other than no-change.
C14_MigrateErrors ==
  \A k \in 1..Len(migrateLog) :
    LET e == migrateLog[k]
    IN /\ e.err = NilErr <=> (e.newCalls = 1 /\ e.newErr = NilErr /\ UpAccepted(e))
       /\ Blank(e.path) => (e.err # NilErr /\ e.newCalls = 0 /\ e.upCalls = 0)
       /\ e.newErr # NilErr => (e.err # NilErr /\ e.upCalls = 0)
       /\ (e.upCalls = 1 /\ ~UpAccepted(e)) => e.err # NilErr
       /\ e.upCalls <= e.newCalls

\* Migrate was called with a path of one space and returned the error of
\* the empty path; the connector was not called.
C14_Witness ==
  \E k \in 1..Len(migrateLog) :
    /\ migrateLog[k].path = <<" ">>
    /\ migrateLog[k].err = <<"migrations path cannot be empty">>
    /\ migrateLog[k].newCalls = 0

\* C15: NewStorage returns a Storage only if Open succeeded and the Ping that
\* follows succeeded; when Open fails it returns no Storage and the open
\* error, and Ping is not called; when Ping fails it returns no Storage and
\* the ping error.
C15_NewStorageOpenThenPing ==
  \A k \in 1..Len(newStorageLog) :
    LET e == newStorageLog[k]
    IN /\ e.ret = "storage" =>
            (e.openErr = NilErr /\ e.pingCalls = 1 /\ e.pingErr = NilErr /\ e.err = NilErr)
       /\ e.openErr # NilErr =>
            /\ e.ret = "nil"
            /\ e.err = <<"failed to open database">> \o e.openErr
            /\ e.pingCalls = 0
       /\ e.pingErr # NilErr =>
            /\ e.ret = "nil"
            /\ e.err = <<"database ping failed">> \o e.pingErr
       /\ e.ret = "nil" <=> e.err # NilErr

\* Open succeeded, Ping failed, and NewStorage returned no Storage.
C15_Witness ==
  /\ storage = "none"
  /\ sqlDB = "open"
  /\ \E k \in 1..Len(newStorageLog) :
       /\ newStorageLog[k].pingErr = <<"ping error">>
       /\ newStorageLog[k].ret = "nil"

\* C16: Close is idempotent: a Close after an earlier Close of the handle, and
\* a Close on a connector that was never opened, return no error; Close returns an error
\* only when the release of the handle fails.
C16_CloseIdempotent ==
  \A k \in 1..Len(closeLog) :
    LET e == closeLog[k]
    IN /\ (k > 1 /\ closeLog[k - 1].before # "nil") =>
            (e.before = "closed" /\ e.err = NilErr)
       /\ e.before = "nil" => (e.err = NilErr /\ ~e.released)
       /\ e.err # NilErr =>
            (e.before = "open" /\ e.released /\ e.releaseErr = <<"close error">>)

\* The Storage was closed twice: the first Close released the open handle,
\* the second found it closed, and both returned nil.
C16_Witness ==
  /\ Len(closeLog) >= 2
  /\ closeLog[1].on = "Storage" /\ closeLog[1].before = "open"
  /\ closeLog[1].err = NilErr
  /\ closeLog[2].on = "Storage" /\ closeLog[2].before = "closed"
  /\ closeLog[2].err = NilErr

\* The calls of SaveRate that returned nil.
SavedOK == {k \in 1..Len(saveLog) : saveLog[k].err = NilErr}

\* C17 as stated: every call of SaveRate records exactly one observation in
\* the save-latency histogram, whether the insert succeeds or fails, and the
\* save counter counts the successful inserts only.
C17_AsStated ==
  /\ DBSaveLatency = Len(saveLog)
  /\ DBSaves = Cardinality(SavedOK)

\* C18 as stated: SaveRate on a Storage whose database connector is nil
\* returns an error saying that the database connection is nil; it does not
\* crash and inserts nothing.
C18_AsStated ==
  storage = "literal" =>
    /\ panicIn # "SaveRate"
    /\ \A k \in 1..Len(saveLog) : saveLog[k].err = <<"database connection is nil">>
    /\ dbRows = 0

\* ------------------------------------------------------------------------
\* Properties of concurrent invocations
\* ------------------------------------------------------------------------

\* The invocations that returned success.
Successes == {i \in Inv : Succeeded(i)}

\* The row invocation i has to persist: the values of the response it
\* fetched itself and its own timestamp.
OwnRow(i) ==
  [ask |-> ParseFloat(SentAsks(i)[1][1]), bid |-> ParseFloat(SentBids(i)[1][1]),
   askAmount |-> ParseFloat(SentBids(i)[1][2]), bidAmount |-> ParseFloat(SentAsks(i)[1][2]),
   ts |-> timestamp[i]]

\* The successful calls of SaveRate invocation i made.
SavesOf(i) == {k \in 1..Len(saveCalls[i]) : saveCalls[i][k].err = NilErr}

\* The rows are those of the successes, one row each.
OneRowEach ==
  \E f \in [Successes -> 1..Len(rows)] :
    /\ \A i, j \in Successes : f[i] = f[j] => i = j
    /\ \A i \in Successes : rows[f[i]] = OwnRow(i)

\* C19: under any interleaving each invocation performs its own fetch, one
\* call of Do per invocation and none shared; each invocation that succeeds
\* performs its own SaveRate; the number of rows is the number of successes;
\* and what an invocation persists and returns comes from the response it
\* fetched itself.
C19_IndependentInvocations ==
  /\ \A i \in Inv :
       doCalls[i] = IF pc[i] \in {"idle", "request", "do"} THEN 0 ELSE 1
  /\ \A i \in Inv :
       IF Succeeded(i)
         THEN /\ Len(saveCalls[i]) = 1
              /\ saveCalls[i][1].err = NilErr
              /\ saveCalls[i][1].args = OwnRow(i)
              /\ TheRet(i).Ask = Single(OwnRow(i).ask)
              /\ TheRet(i).Bid = Single(OwnRow(i).bid)
              /\ TheRet(i).AskAmount = Single(OwnRow(i).askAmount)
              /\ TheRet(i).BidAmount = Single(OwnRow(i).bidAmount)
         ELSE SavesOf(i) = {}
  /\ Len(rows) = Cardinality(Successes)
  /\ OneRowEach

\* Two invocations fetched different books and both succeeded; the row of
\* the second was written first.
C19_Witness ==
  /\ Succeeded(1) /\ Succeeded(2)
  /\ TheResp(1).Body = ValidBook /\ TheResp(2).Body = OtherBook
  /\ doCalls[1] = 1 /\ doCalls[2] = 1
  /\ Len(rows) = 2 /\ rows[1] = OwnRow(2) /\ rows[2] = OwnRow(1)

\* ------------------------------------------------------------------------
\* Properties of the errors of GetRateFromExchange
\* ------------------------------------------------------------------------

\* The stages of GetRateFromExchange that can fail.
Stages == {"request", "fetch", "status", "decode", "empty", "ask", "bid", "save"}

\* The label each stage puts before its error.
StageLabel(s) ==
  CASE s = "request" -> "create request failed"
    [] s = "fetch" -> "fetch rates failed"
    [] s = "status" -> "binance API returned status"
    [] s = "decode" -> "decode response failed"
    [] s = "empty" -> "empty response from binance"
    [] s = "ask" -> "ask processing failed"
    [] s = "bid" -> "bid processing failed"
    [] s = "save" -> "save rate failed"

\* The stage at which an invocation that returned an error failed, told from
\* the configuration, the outcome of Do, the response and the outcome of
\* SaveRate.
FailedStage(i) ==
  IF ~urlOK THEN "request"
  ELSE IF doErr[i] # NilErr THEN "fetch"
  ELSE IF TheResp(i).StatusCode # 200 THEN "status"
  ELSE IF ~TheResp(i).Body.json THEN "decode"
  ELSE IF SentAsks(i) = <<>> \/ SentBids(i) = <<>> THEN "empty"
  ELSE IF ~NumericEntry(SentAsks(i)[1]) THEN "ask"
  ELSE IF ~NumericEntry(SentBids(i)[1]) THEN "bid"
  ELSE "save"

\* The stages whose error wraps the error of the call that failed.
Wrapping == {"request", "fetch", "decode", "ask", "bid", "save"}

\* C20: every error GetRateFromExchange returns begins with the label of the
\* stage that produced it and with the label of no other stage, so the stage
\* is told from the error alone; the error of the call that failed, or the
\* status of the response, follows the label.
C20_ErrorsNameTheStage ==
  \A i \in Inv :
    (Done(i) /\ ret[i].err # NilErr) =>
      /\ ret[i].resp = Nil
      /\ ret[i].err[1] = StageLabel(FailedStage(i))
      /\ \A s \in Stages \ {FailedStage(i)} : ret[i].err[1] # StageLabel(s)
      /\ FailedStage(i) \in Wrapping => Len(ret[i].err) >= 2
      /\ FailedStage(i) = "status" => ret[i].err = <<StageLabel("status"), TheResp(i).Status>>
      /\ FailedStage(i) = "empty" => ret[i].err = <<StageLabel("empty")>>

\* The ask entry was numeric and the bid entry was not: the invocation
\* returned the error of the bid stage.
C20_Witness ==
  \E i \in Inv :
    /\ Done(i) /\ IsBook(i)
    /\ SentAsks(i) # <<>> /\ SentBids(i) # <<>>
    /\ NumericEntry(SentAsks(i)[1]) /\ ~NumericEntry(SentBids(i)[1])
    /\ ret[i].err # NilErr /\ ret[i].err[1] = "bid processing failed"

\* ------------------------------------------------------------------------
\* C21: every answered Check carries status SERVING and no error, whatever
\* the service asked for and whatever the state of the server, and every
\* answered Watch carries the Unimplemented error and has sent no status.
\* ------------------------------------------------------------------------
C21_HealthAlwaysServing ==
  /\ health.method = "Check" =>
       /\ health.status = "SERVING"
       /\ health.err = NilErr
  /\ health.method = "Watch" =>
       /\ health.err = <<"Unimplemented", "unimplemented">>
       /\ health.sent = <<>>

\* Check answered while the server was draining after the signal.
C21_Witness ==
  /\ health.method = "Check"
  /\ health.srv = "draining"
  /\ health.service = "unknown"
  /\ health.status = "SERVING"

\* ------------------------------------------------------------------------
\* C24: LoadConfig resolves every setting as flag explicitly set, then
\* environment variable, then built-in default; a registered flag left
\* unset is ignored, and a port value that is not an integer falls back to
\* the next source.
\* ------------------------------------------------------------------------
\* The value the stated precedence gives a string setting.
Precedence(s) ==
  IF flags[s].set THEN flags[s].Value
  ELSE IF environ[s] # "" THEN environ[s]
  ELSE BuiltIn(s)

\* The value the stated precedence gives a port.
IntPrecedence(s) ==
  IF flags[s].set /\ AtoiOK(flags[s].Value) THEN Atoi(flags[s].Value)
  ELSE IF environ[s] # "" /\ AtoiOK(environ[s]) THEN Atoi(environ[s])
  ELSE Atoi(BuiltIn(s))

C24_AsStated ==
  \A c \in cfg :
    /\ c.Env = Precedence("env")
    /\ c.DBUser = Precedence("db-user")
    /\ c.GRPCPort = IntPrecedence("grpc-port")

\* ------------------------------------------------------------------------
\* C22: the timestamp is taken once per invocation, as the current time at
\* the moment both best entries have been parsed and before SaveRate is
\* called, and that one value is both the timestamp given to SaveRate and
\* the timestamp formatted into the response.
\* ------------------------------------------------------------------------
\* Both best entries of the decoded book parse.
Extracted(i) ==
  /\ IsBook(i)
  /\ decodeCalls[i] = 1
  /\ Len(depthResponse[i].Asks) > 0
  /\ Len(depthResponse[i].Bids) > 0
  /\ processOrder(depthResponse[i].Asks[1]).err = NilErr
  /\ processOrder(depthResponse[i].Bids[1]).err = NilErr

\* The timestamp is taken in this step.
TimestampTaken(i) == timestamp'[i] # timestamp[i]

C22_TimestampAfterExtraction ==
  /\ [](\A i \in Inv :
          /\ timestamp[i] # NoTime => Extracted(i)
          /\ \A k \in 1..Len(saveCalls[i]) : saveCalls[i][k].args.ts = timestamp[i]
          /\ Succeeded(i) => TheRet(i).Timestamp = FormatRFC3339(timestamp[i]))
  /\ [][\A i \in Inv :
          TimestampTaken(i) =>
            /\ timestamp[i] = NoTime
            /\ timestamp'[i] = now
            /\ saveCalls[i] = <<>>
            /\ saveCalls'[i] = <<>>]_vars

\* An invocation entered at one instant succeeded with the timestamp of a
\* later instant, saved and returned.
C22_Witness ==
  \E i \in Inv :
    /\ Succeeded(i)
    /\ timestamp[i] > startedAt[i]
    /\ Len(saveCalls[i]) = 1
    /\ saveCalls[i][1].args.ts = timestamp[i]
    /\ TheRet(i).Timestamp = FormatRFC3339(timestamp[i])

\* ------------------------------------------------------------------------
\* C23: the fetch carries a deadline whatever the context of the caller
\* is, and an invocation whose fetch ended with the context past its
\* deadline fails and persists nothing.
\* ------------------------------------------------------------------------
C23_AsStated ==
  \A i \in Inv :
    /\ pc[i] = "do" => reqDeadline[i] # NoTime
    /\ (Done(i) /\ doErr[i] = <<"context deadline exceeded">>) =>
         /\ ret[i].err # NilErr
         /\ saveCalls[i] = <<>>

\* ------------------------------------------------------------------------
\* C25: an invocation passes the stages request, fetch, status check,
\* decode, empty check, ask parse, bid parse and persist one after the
\* other, each at most once; a stage that fails ends the invocation, no
\* stage after it runs, and SaveRate is called at most once and only when
\* every earlier stage succeeded.
\* ------------------------------------------------------------------------
\* The position of a stage in the order of the handler.
StageRank(p) ==
  CASE p = "idle" -> 0
    [] p = "request" -> 1
    [] p = "do" -> 2
    [] p = "status" -> 3
    [] p = "decode" -> 4
    [] p = "empty" -> 5
    [] p = "ask" -> 6
    [] p = "bid" -> 7
    [] p = "stamp" -> 8
    [] p = "save" -> 9
    [] OTHER -> 10

\* The position of the stage that failed.
FailedRank(i) ==
  CASE FailedStage(i) = "request" -> 1
    [] FailedStage(i) = "fetch" -> 2
    [] FailedStage(i) = "status" -> 3
    [] FailedStage(i) = "decode" -> 4
    [] FailedStage(i) = "empty" -> 5
    [] FailedStage(i) = "ask" -> 6
    [] FailedStage(i) = "bid" -> 7
    [] FailedStage(i) = "save" -> 9

\* What the stages of invocation i have done.
Trace(i) ==
  <<httpResp[i], doErr[i], depthResponse[i], locals[i], timestamp[i], ret[i],
    doCalls[i], decodeCalls[i], saveCalls[i], closeCalls[i]>>

\* The same, after the step.
TraceNext(i) ==
  <<httpResp'[i], doErr'[i], depthResponse'[i], locals'[i], timestamp'[i], ret'[i],
    doCalls'[i], decodeCalls'[i], saveCalls'[i], closeCalls'[i]>>

C25_StagesInOrder ==
  /\ [](\A i \in Inv :
          /\ doCalls[i] <= 1 /\ decodeCalls[i] <= 1 /\ Len(saveCalls[i]) <= 1
          /\ doCalls[i] = 1 => StageRank(pc[i]) > 2
          /\ decodeCalls[i] = 1 => StageRank(pc[i]) > 4 /\ doCalls[i] = 1
          /\ saveCalls[i] # <<>> => Ended(i) /\ Extracted(i) /\ doCalls[i] = 1
          /\ (Done(i) /\ ret[i].err # NilErr) =>
               /\ FailedRank(i) <= 1 => doCalls[i] = 0
               /\ FailedRank(i) <= 3 => decodeCalls[i] = 0
               /\ FailedRank(i) <= 6 => locals[i].bestAsk = NoLocals.bestAsk
               /\ FailedRank(i) <= 7 =>
                    /\ locals[i].bestBid = NoLocals.bestBid
                    /\ timestamp[i] = NoTime
                    /\ saveCalls[i] = <<>>)
  /\ [][\A i \in Inv :
          /\ pc'[i] # pc[i] =>
               \/ StageRank(pc'[i]) = StageRank(pc[i]) + 1
               \/ StageRank(pc'[i]) = 10
          /\ Ended(i) => pc'[i] = pc[i] /\ TraceNext(i) = Trace(i)]_vars

\* An invocation failed at the bid parse, after the fetch, the decode and
\* the ask parse, with SaveRate never called.
C25_Witness ==
  \E i \in Inv :
    /\ Done(i)
    /\ ret[i].err # NilErr
    /\ FailedStage(i) = "bid"
    /\ doCalls[i] = 1
    /\ decodeCalls[i] = 1
    /\ locals[i].bestAsk # NoLocals.bestAsk
    /\ saveCalls[i] = <<>>

\* ------------------------------------------------------------------------
\* C26: HandleSignals returns from its select only through the case of the
\* context deadline or the case of the timer, both ten seconds after they
\* were started, and never before one of them is due, whenever
\* GracefulStop has returned.
\* ------------------------------------------------------------------------
\* HandleSignals returns in this step.
HandleSignalsReturns == mainPc # "hs_returned" /\ mainPc' = "hs_returned"

C26_StopNeverObserved ==
  /\ [](hsReturnedAt # NoTime =>
          /\ selected \in {"ctx", "timer"}
          /\ ctxDeadline # NoTime /\ timerAt # NoTime
          /\ selected = "ctx" => hsReturnedAt >= ctxDeadline
          /\ selected = "timer" => hsReturnedAt >= timerAt
          /\ stopDoneAt # NoTime /\ stopDoneAt < ctxDeadline /\ stopDoneAt < timerAt
               => hsReturnedAt > stopDoneAt)
  /\ [][HandleSignalsReturns =>
          /\ mainPc = "hs_select"
          /\ now >= ctxDeadline \/ now >= timerAt
          /\ UNCHANGED <<gsPc, srv, stopDoneAt>>]_vars

\* GracefulStop returned before the timers were due, and HandleSignals
\* returned later, when the deadline had passed.
C26_Witness ==
  /\ hsReturnedAt # NoTime
  /\ stopDoneAt # NoTime
  /\ stopDoneAt < hsReturnedAt
  /\ hsReturnedAt >= ctxDeadline

\* ------------------------------------------------------------------------
\* C27: two invocations whose order books have the same first ask and the
\* same first bid, and whose SaveRate calls ended alike, return the same
\* values and the same error and persist the same values, whatever follows
\* the first entries; the timestamps are those of the two calls.
\* ------------------------------------------------------------------------
\* The two books agree on their first ask and their first bid.
SameBest(i, j) ==
  /\ IsBook(i) /\ IsBook(j)
  /\ SentAsks(i) # <<>> /\ SentAsks(j) # <<>>
  /\ SentBids(i) # <<>> /\ SentBids(j) # <<>>
  /\ SentAsks(i)[1] = SentAsks(j)[1]
  /\ SentBids(i)[1] = SentBids(j)[1]

\* The outcomes of the SaveRate calls made.
SaveOutcomes(i) == [k \in 1..Len(saveCalls[i]) |-> saveCalls[i][k].err]

\* What an invocation returned and persisted, the timestamp aside.
Outcome(i) ==
  [ended |-> pc[i],
   err |-> ret[i].err,
   resp |-> {[Success |-> r.Success, Ask |-> r.Ask, Bid |-> r.Bid,
              AskAmount |-> r.AskAmount, BidAmount |-> r.BidAmount] : r \in ret[i].resp},
   saved |-> [k \in 1..Len(saveCalls[i]) |->
                [ask |-> saveCalls[i][k].args.ask, bid |-> saveCalls[i][k].args.bid,
                 askAmount |-> saveCalls[i][k].args.askAmount,
                 bidAmount |-> saveCalls[i][k].args.bidAmount]]]

C27_OnlyFirstEntries ==
  \A i, j \in Pair :
    (Ended(i) /\ Ended(j) /\ SameBest(i, j) /\ SaveOutcomes(i) = SaveOutcomes(j)) =>
      Outcome(i) = Outcome(j)

\* Two invocations succeeded with the same values, one on a book of single
\* entries and one on a book with a malformed second ask and a second bid
\* of another price.
C27_Witness ==
  /\ Succeeded(1) /\ Succeeded(2)
  /\ SameBest(1, 2)
  /\ Len(SentAsks(1)) = 1 /\ Len(SentBids(1)) = 1
  /\ Len(SentAsks(2)) = 2 /\ SentAsks(2)[2] = <<"abc">>
  /\ Len(SentBids(2)) = 2 /\ SentBids(2)[2] = <<"1.5", "1.5">>
  /\ Outcome(1) = Outcome(2)

\* ------------------------------------------------------------------------
\* C28: on the path from the signal to the exit tp.Shutdown is called
\* twice: once in HandleSignals, on the active provider, as the first thing
\* after the signal is received, and once by the deferred function of main
\* after HandleSignals has returned, on the provider already shut down.
\* ------------------------------------------------------------------------
\* tp.Shutdown is called in this step.
ShutdownCalled == tpShutdowns' # tpShutdowns

C28_TracerShutdownTwice ==
  /\ [](/\ mainPc \in {"hs_ctx", "hs_go", "hs_select", "hs_returned"} =>
             tpShutdowns = 1 /\ tpState = "shutdown"
        /\ mainPc \in {"deferred", "exit"} =>
             tpShutdowns = 2 /\ tpState = "shutdown" /\ hsReturnedAt # NoTime
        /\ tpShutdowns <= 2)
  /\ [][ShutdownCalled =>
          /\ tpShutdowns' = tpShutdowns + 1
          /\ \/ tpShutdowns = 0 /\ tpState = "active" /\ mainPc = "hs_tp"
                /\ ctxDeadline = NoTime /\ gsPc = "none"
             \/ tpShutdowns = 1 /\ tpState = "shutdown" /\ mainPc = "hs_returned"]_vars

\* The process has exited after a signal with both calls made.
C28_Witness ==
  /\ mainPc = "exit"
  /\ hsReturnedAt # NoTime
  /\ tpShutdowns = 2
  /\ tpState = "shutdown"

\* ------------------------------------------------------------------------
\* C29: when the repository open, the migration, the listener start or the
\* health probe fails, the process ends in logger.Fatal with no deferred
\* function run: the tracer provider stays active, tp.Shutdown has not been
\* called, and a repository already opened stays open; nothing runs
\* afterwards.
\* ------------------------------------------------------------------------
\* The startup steps after the tracer initialisation that can fail.
FailingSteps == {"CreateStorage", "ApplyMigrations", "StartServer", "PerformHealthCheck"}

\* The process ends in logger.Fatal in this step, main standing at a
\* startup step.
StartupFatal == mainPc \in FailingSteps /\ mainPc' = "fatal"

C29_FatalSkipsDeferred ==
  /\ [][StartupFatal =>
          /\ tpState = "active" /\ tpState' = "active"
          /\ tpShutdowns' = 0
          /\ mainPc # "CreateStorage" => storeState' = "open"
          /\ mainPc = "CreateStorage" => storeState' = "none"]_vars
  /\ [][mainPc = "fatal" => UNCHANGED <<tpState, tpShutdowns, storeState>>]_vars

\* The health probe failed: the process has ended with the provider active,
\* no Shutdown call made and the repository open.
C29_Witness ==
  /\ mainPc = "fatal"
  /\ probes = <<"error">>
  /\ tpState = "active"
  /\ tpShutdowns = 0
  /\ storeState = "open"

\* ------------------------------------------------------------------------
\* C30: the body of the response is closed exactly once when the handler
\* ends on any path on which Do returned a response, it is not closed
\* while the handler runs, and no Close is made when Do returned an error
\* or was never called.
\* ------------------------------------------------------------------------
C30_BodyClosedOnce ==
  \A i \in Inv :
    /\ closeCalls[i] <= 1
    /\ ~Ended(i) => closeCalls[i] = 0
    /\ Ended(i) => (closeCalls[i] = 1 <=> HasResp(i))
    /\ doErr[i] # NilErr => ~HasResp(i) /\ closeCalls[i] = 0

\* The upstream answered a status other than 200: the handler returned the
\* error with the body closed once.
C30_Witness ==
  \E i \in Inv :
    /\ Done(i)
    /\ HasResp(i)
    /\ TheResp(i).StatusCode # 200
    /\ ret[i].err # NilErr
    /\ closeCalls[i] = 1

====
